---- MODULE Spec2Model ----
(***************************************************************************)
(* A model of the notes-to-tasks automation: the idempotency key, the      *)
(* reprocessing decider, the section scanner, project inference, the       *)
(* meeting pass with its poll cycle, and routing to project pages.         *)
(*                                                                         *)
(* Texts are TLA+ strings handled character by character (Len, SubSeq and  *)
(* \o work on strings in TLC).  Each component has its own specification   *)
(* (SpecKey, SpecDecide, ...) over its own variables; the variables of the *)
(* other components keep their initial values there.                       *)
(***************************************************************************)
EXTENDS Integers, Sequences, FiniteSets, Bags, TLC

VARIABLES
    \* generateLineKey: a text and a variant of it
    keyParent, keyText, keyVariant, keyInterior, keyOut,
    \* shouldProcessMeeting: a page and the decision on it
    decPage, decOut,
    \* section scanner: a node sequence, the scan applied and its result
    scanBlocks, scanFn, scanOut,
    \* project inference: a title, a node sequence and the inference
    infTitle, infBlocks, infOut,
    \* the document store: meeting pages by id, the task collection (a bag
    \* of records), the clock
    meetings, tasks, now,
    \* the poll cycle: its position, the meetings still to process, the pass
    pc, queue, pass,
    \* the project information handed to the project pages
    routed,
    \* history: edits no pass has read, projects set by a user, the write
    \* a pass has just made to a meeting page
    unread, userSet, lastWrite,
    \* the remote calls that have failed and the stops of the process so far,
    \* whether the process was stopped
    failures, stopped,
    \* routing: the project page, whether the Projects database has it, the
    \* bundle, the position in updateProjectPage, the appends still to make,
    \* the appendToSection call in progress, successCount, totalItems, the
    \* result, the appends made, the remote calls that have failed, the
    \* appendToSection calls that have returned, the number of the run of
    \* updateProjectPage, the page as the first run left it
    routePage, routeFound, routeBundle, routePc, routeWork, routeCall,
    routeOk, routeTotal, routeOut, routeLog, routeFailures, routeDone,
    routeRun, routeFirst,
    \* apiCall: the position in it, the loop counter, the delays and
    \* invocations so far, lastError, the outcome
    apiPc, apiAttempt, apiTrace, apiLastError, apiResult,
    \* quick entries: the properties of the record in the task collection,
    \* the texts of its two sections, whether it is archived, the position,
    \* whether the record was selected, the record as the query returned it,
    \* the updates written, the locals of processQuickTodo, the remote writes
    \* and routings of this processQuickTodo, its result, the calls that
    \* have failed, the number of the poll cycle, whether an earlier cycle
    \* ended with a result other than null
    quickPage, quickSections, quickArchived, quickPc, quickSelected, quickSeen,
    quickUpdates, quickRun, quickLog, quickResult, quickFailures, quickCycle,
    quickTerminal,
    \* the engine under startPolling: the invocations of pollMeetings so far,
    \* whether setInterval was called, the meetings in the database, those
    \* marked processed, the line keys of the tasks created, the records
    \* that are quick entries, the calls that have failed
    engPolls, engArmed, engPresent, engProcessed, engTasks, engQuickOpen,
    engFailures,
    \* categorizeProjectInfo: the bullets given, the position, the requests
    \* made to the classification service, its last answer, the result
    catBullets, catPc, catRequests, catReply, catOut,
    \* parseQuickTodo: the text given, the position, the requests made to
    \* the classification service, its last answer, the result
    parseText, parsePc, parseRequests, parseReply, parseOut,
    \* appendToSection: the project page, the arguments of the call in
    \* progress, the position, what the call has done so far (failed
    \* attempts, waits, the switch to the fallback section), the result
    appPage, appCall, appPc, appTrace, appOut,
    \* getAllBlocksRecursive: the block tree of a page with the answer the
    \* store gives to a request for the children of each block, the
    \* position, the outcome (blocks returned, requests made, error thrown)
    tree, treePc, treeOut,
    \* extractInfoBullets: the blocks of a page, the range of its Project
    \* Info section, the position, the bullets returned
    exBlocks, exRange, exPc, exOut,
    \* deleteSection: the blocks of the quick-entry page, the heading given,
    \* the blocks still in the store (by index), the position and the loop
    \* index, the delete requests made so far, the result
    delBlocks, delHeading, delStore, delPc, delI, delTrace, delOut

keyVars == <<keyParent, keyText, keyVariant, keyInterior, keyOut>>
decVars == <<decPage, decOut>>
scanVars == <<scanBlocks, scanFn, scanOut>>
infVars == <<infTitle, infBlocks, infOut>>
mainVars == <<meetings, tasks, now, pc, queue, pass, routed,
              unread, userSet, lastWrite, failures, stopped>>
routeVars == <<routePage, routeFound, routeBundle, routePc, routeWork, routeCall,
               routeOk, routeTotal, routeOut, routeLog, routeFailures, routeDone,
               routeRun, routeFirst>>
apiVars == <<apiPc, apiAttempt, apiTrace, apiLastError, apiResult>>
quickVars == <<quickPage, quickSections, quickArchived, quickPc, quickSelected,
               quickSeen, quickUpdates, quickRun, quickLog, quickResult,
               quickFailures, quickCycle, quickTerminal>>
engVars == <<engPolls, engArmed, engPresent, engProcessed, engTasks, engQuickOpen,
             engFailures>>

catVars == <<catBullets, catPc, catRequests, catReply, catOut>>

parseVars == <<parseText, parsePc, parseRequests, parseReply, parseOut>>

appVars == <<appPage, appCall, appPc, appTrace, appOut>>

treeVars == <<tree, treePc, treeOut>>

exVars == <<exBlocks, exRange, exPc, exOut>>

delVars == <<delBlocks, delHeading, delStore, delPc, delI, delTrace, delOut>>

vars == <<keyVars, decVars, scanVars, infVars, mainVars, routeVars, apiVars, quickVars, engVars,
          catVars,
          parseVars,
          appVars,
          treeVars,
          exVars,
          delVars>>

\* What the actions of one component leave alone: the other components
notKey == <<decVars, scanVars, infVars, mainVars, routeVars, apiVars, quickVars, engVars, catVars,
           parseVars,
           appVars,
           treeVars,
           exVars,
           delVars>>
notDec == <<keyVars, scanVars, infVars, mainVars, routeVars, apiVars, quickVars, engVars, catVars,
           parseVars,
           appVars,
           treeVars,
           exVars,
           delVars>>
notScan == <<keyVars, decVars, infVars, mainVars, routeVars, apiVars, quickVars, engVars, catVars,
           parseVars,
           appVars,
           treeVars,
           exVars,
           delVars>>
notInf == <<keyVars, decVars, scanVars, mainVars, routeVars, apiVars, quickVars, engVars, catVars,
           parseVars,
           appVars,
           treeVars,
           exVars,
           delVars>>
notMain == <<keyVars, decVars, scanVars, infVars, routeVars, apiVars, quickVars, engVars, catVars,
           parseVars,
           appVars,
           treeVars,
           exVars,
           delVars>>
notRoute == <<keyVars, decVars, scanVars, infVars, mainVars, apiVars, quickVars, engVars, catVars,
           parseVars,
           appVars,
           treeVars,
           exVars,
           delVars>>
notApi == <<keyVars, decVars, scanVars, infVars, mainVars, routeVars, quickVars,
           engVars, catVars,
           parseVars,
           appVars,
           treeVars,
           exVars,
           delVars>>
notQuick == <<keyVars, decVars, scanVars, infVars, mainVars, routeVars, apiVars,
             engVars, catVars,
           parseVars,
           appVars,
           treeVars,
           exVars,
           delVars>>
notEng == <<keyVars, decVars, scanVars, infVars, mainVars, routeVars, apiVars,
           quickVars, catVars,
           parseVars,
           appVars,
           treeVars,
           exVars,
           delVars>>
notCat == <<keyVars, decVars, scanVars, infVars, mainVars, routeVars, apiVars,
           quickVars, engVars,
           parseVars,
           appVars,
           treeVars,
           exVars,
           delVars>>
notParse == <<keyVars, decVars, scanVars, infVars, mainVars, routeVars, apiVars, quickVars, engVars, catVars,
           appVars,
           treeVars,
           exVars,
           delVars>>
notApp == <<keyVars, decVars, scanVars, infVars, mainVars, routeVars, apiVars, quickVars, engVars, catVars, parseVars,
           treeVars,
           exVars,
           delVars>>
notTree == <<keyVars, decVars, scanVars, infVars, mainVars, routeVars, apiVars, quickVars, engVars, catVars, parseVars, appVars,
           exVars,
           delVars>>
notEx == <<keyVars, decVars, scanVars, infVars, mainVars, routeVars, apiVars, quickVars, engVars, catVars, parseVars, appVars, treeVars,
           delVars>>
notDel == <<keyVars, decVars, scanVars, infVars, mainVars, routeVars, apiVars, quickVars, engVars, catVars, parseVars, appVars, treeVars, exVars>>

\* An optional value: absent, or present with a value
None == <<>>
Some(x) == <<x>>

----------------------------------------------------------------------------
(* Strings, as JavaScript's String methods compute on them.                *)

UpperLetters == "ABCDEFGHIJKLMNOPQRSTUVWXYZ"
LowerLetters == "abcdefghijklmnopqrstuvwxyz"
Digits == "0123456789"

CharAt(s, i) == SubSeq(s, i, i)

HasChar(s, c) == \E i \in 1..Len(s) : CharAt(s, i) = c

IndexOfChar(s, c) == CHOOSE i \in 1..Len(s) : CharAt(s, i) = c

\* String.prototype.toLowerCase on one character
LowerChar(c) ==
    IF HasChar(UpperLetters, c)
    THEN CharAt(LowerLetters, IndexOfChar(UpperLetters, c))
    ELSE c

UpperChar(c) ==
    IF HasChar(LowerLetters, c)
    THEN CharAt(UpperLetters, IndexOfChar(LowerLetters, c))
    ELSE c

RECURSIVE toLowerCase(_)
toLowerCase(s) ==
    IF Len(s) = 0 THEN ""
    ELSE LowerChar(CharAt(s, 1)) \o toLowerCase(SubSeq(s, 2, Len(s)))

IsSpace(c) == c \in {" ", "\t", "\n"}

RECURSIVE trimStart(_)
trimStart(s) ==
    IF Len(s) > 0 /\ IsSpace(CharAt(s, 1))
    THEN trimStart(SubSeq(s, 2, Len(s)))
    ELSE s

RECURSIVE trimEnd(_)
trimEnd(s) ==
    IF Len(s) > 0 /\ IsSpace(CharAt(s, Len(s)))
    THEN trimEnd(SubSeq(s, 1, Len(s) - 1))
    ELSE s

\* String.prototype.trim
trim(s) == trimEnd(trimStart(s))

\* String.prototype.includes
includes(s, sub) ==
    \E i \in 1..(Len(s) - Len(sub) + 1) : SubSeq(s, i, i + Len(sub) - 1) = sub

\* String.prototype.startsWith
startsWith(s, pre) == Len(pre) <= Len(s) /\ SubSeq(s, 1, Len(pre)) = pre

\* All strings over the characters of `alphabet` with exactly n characters
RECURSIVE StringsOfLen(_, _)
StringsOfLen(alphabet, n) ==
    IF n = 0 THEN {""}
    ELSE { s \o CharAt(alphabet, i) :
             s \in StringsOfLen(alphabet, n - 1), i \in 1..Len(alphabet) }

StringsUpTo(alphabet, n) == UNION { StringsOfLen(alphabet, k) : k \in 0..n }

----------------------------------------------------------------------------
(* Idempotency key generator (extractors.js).                              *)

\* crypto.createHash('sha256').update(content).digest('hex'): the digest
\* is taken as collision-free, so it is represented by the content it
\* was computed from, tagged so that it is not itself a text.
sha256hex(content) == <<"sha256", content>>

generateLineKeyNoTrim(meetingId, todoText) ==
    sha256hex(meetingId \o ":" \o toLowerCase(todoText))

generateLineKeyNoLower(meetingId, todoText) ==
    sha256hex(meetingId \o ":" \o trim(todoText))

generateLineKey(meetingId, todoText) ==
    LET normalized == toLowerCase(trim(todoText))
        content == meetingId \o ":" \o normalized
    IN  sha256hex(content)

\* Bounds of the key specification
MaxKeyLen == 3
KeyAlphabet == "aB "
KeyParents == {"m1", "m2"}

KeyInit ==
    /\ keyParent \in KeyParents
    /\ keyText \in StringsUpTo(KeyAlphabet, MaxKeyLen)
    /\ keyVariant = keyText
    /\ keyInterior = FALSE
    /\ keyOut = <<>>

\* T := T with the letter at position i in the other case
KeyFlipCase ==
    \E i \in 1..Len(keyVariant) :
        LET c == CharAt(keyVariant, i)
            d == IF HasChar(UpperLetters, c) THEN LowerChar(c) ELSE UpperChar(c)
        IN  /\ d # c
            /\ keyVariant' = SubSeq(keyVariant, 1, i - 1) \o d
                               \o SubSeq(keyVariant, i + 1, Len(keyVariant))
            /\ keyOut' = <<>>
            /\ UNCHANGED <<keyParent, keyText, keyInterior, notKey>>

\* T := T with one more whitespace character in front or at the end
KeyPadOuter ==
    /\ Len(keyVariant) <= MaxKeyLen
    /\ \E w \in {" ", "\t"} :
          \/ keyVariant' = w \o keyVariant
          \/ keyVariant' = keyVariant \o w
    /\ keyOut' = <<>>
    /\ UNCHANGED <<keyParent, keyText, keyInterior, notKey>>

\* T := T without its first or last character, when that is whitespace
KeyStripOuter ==
    /\ Len(keyVariant) > 0
    /\ \/ /\ IsSpace(CharAt(keyVariant, 1))
          /\ keyVariant' = SubSeq(keyVariant, 2, Len(keyVariant))
       \/ /\ IsSpace(CharAt(keyVariant, Len(keyVariant)))
          /\ keyVariant' = SubSeq(keyVariant, 1, Len(keyVariant) - 1)
    /\ keyOut' = <<>>
    /\ UNCHANGED <<keyParent, keyText, keyInterior, notKey>>

\* T := T with one more whitespace character between two non-whitespace
\* characters (whitespace inside the text, which trim() leaves alone)
KeyPadInner ==
    /\ Len(keyVariant) <= MaxKeyLen
    /\ \E i \in 1..(Len(keyVariant) - 1) :
          /\ \E j \in 1..i : ~IsSpace(CharAt(keyVariant, j))
          /\ \E j \in (i + 1)..Len(keyVariant) : ~IsSpace(CharAt(keyVariant, j))
          /\ keyVariant' = SubSeq(keyVariant, 1, i) \o " "
                             \o SubSeq(keyVariant, i + 1, Len(keyVariant))
    /\ keyInterior' = TRUE
    /\ keyOut' = <<>>
    /\ UNCHANGED <<keyParent, keyText, notKey>>

\* Both keys are computed
KeyCompute ==
    /\ keyOut' = <<generateLineKey(keyParent, keyText),
                   generateLineKey(keyParent, keyVariant)>>
    /\ UNCHANGED <<keyParent, keyText, keyVariant, keyInterior, notKey>>

KeyIdle ==
    /\ keyParent = "" /\ keyText = "" /\ keyVariant = ""
    /\ keyInterior = FALSE /\ keyOut = <<>>

----------------------------------------------------------------------------
(* Reprocessing decider (extractors.js).                                   *)

\* Timestamps are integers; a date property is None or Some(timestamp),
\* a checkbox property is None (no such property) or Some(boolean).
MaxTime == 3
Times == 0..MaxTime

shouldProcessMeetingNonStrict(page) ==
    LET processed == IF page.Processed = None THEN FALSE ELSE page.Processed[1]
    IN  IF ~processed THEN TRUE
        ELSE IF page.LastProcessed # None
                /\ page.last_edited_time >= page.LastProcessed[1] THEN TRUE
        ELSE FALSE

shouldProcessMeeting(page) ==
    LET processed == IF page.Processed = None THEN FALSE ELSE page.Processed[1]
        lastProcessed == page.LastProcessed
        lastEdited == page.last_edited_time
    IN  \* Case 1: never processed
        IF ~processed THEN TRUE
        \* Case 2: processed but edited after last processing
        ELSE IF lastProcessed # None /\ lastEdited > lastProcessed[1] THEN TRUE
        \* Already processed and no changes since
        ELSE FALSE

DecPages ==
    [ Processed : {None, Some(TRUE), Some(FALSE)},
      LastProcessed : {None} \cup { Some(t) : t \in Times },
      last_edited_time : Times ]

DecInit ==
    /\ decPage \in DecPages
    /\ decOut = None

DecDecide ==
    /\ decOut = None
    /\ decOut' = Some(shouldProcessMeeting(decPage))
    /\ UNCHANGED <<decPage, notDec>>

DecIdle ==
    /\ decPage = [Processed |-> None, LastProcessed |-> None, last_edited_time |-> 0]
    /\ decOut = None

----------------------------------------------------------------------------
(* Section scanner (project_info_extractor.js, quick_todo_processor_v2.js). *)

\* A content node: [type, text].  text is the joined plain_text of the
\* node's rich_text.  Indices are those of the code: blocks[i] is At(blocks, i).
At(blocks, i) == blocks[i + 1]

isHeading(block) == includes(block.type, "heading")

\* The emoji of the quick-entry headings are written as one character each
TaskEmoji == "%"
InfoEmoji == "$"
TaskHeading == TaskEmoji \o " Task"
InfoHeading == InfoEmoji \o " Project Info"

\* sectionHeading.replace(/[<emoji>]/g, '')
RECURSIVE stripEmoji(_)
stripEmoji(s) ==
    IF Len(s) = 0 THEN ""
    ELSE (IF CharAt(s, 1) \in {TaskEmoji, InfoEmoji} THEN "" ELSE CharAt(s, 1))
           \o stripEmoji(SubSeq(s, 2, Len(s)))

\* The heading test of findProjectInfoSection
matchesProjectInfo(block) ==
    LET text == trim(toLowerCase(block.text))
    IN  includes(text, "project information") \/ includes(text, "project info")

\* The heading test of extractSectionContent and deleteSection
matchesSection(block, sectionHeading) ==
    LET text == trim(block.text)
    IN  includes(text, sectionHeading) \/ includes(text, trim(stripEmoji(sectionHeading)))

\* The for loop of the three scans, from index i on, with the indices found
\* so far: a matching heading sets the section index and continues, another
\* heading ends the loop once a section index is set.  match[i + 1] tells
\* whether the heading test holds of blocks[i].
RECURSIVE scanLoop(_, _, _, _)
scanLoop(blocks, match, i, sectionIndex) ==
    IF i >= Len(blocks) THEN [sectionIndex |-> sectionIndex, nextHeadingIndex |-> -1]
    ELSE IF isHeading(At(blocks, i)) /\ match[i + 1]
         THEN scanLoop(blocks, match, i + 1, i)
    ELSE IF isHeading(At(blocks, i)) /\ sectionIndex # -1
         THEN [sectionIndex |-> sectionIndex, nextHeadingIndex |-> i]
    ELSE scanLoop(blocks, match, i + 1, sectionIndex)

\* null is [found |-> FALSE]
findProjectInfoSection(blocks) ==
    LET match == [k \in 1..Len(blocks) |-> matchesProjectInfo(blocks[k])]
        r == scanLoop(blocks, match, 0, -1)
    IN  IF r.sectionIndex = -1
        THEN [found |-> FALSE, startIndex |-> -1, endIndex |-> -1]
        ELSE [found |-> TRUE,
              startIndex |-> r.sectionIndex,
              endIndex |-> IF r.nextHeadingIndex = -1 THEN Len(blocks)
                           ELSE r.nextHeadingIndex]

\* The range that extractSectionContent reads and deleteSection deletes
locateSection(blocks, sectionHeading) ==
    LET match == [k \in 1..Len(blocks) |-> matchesSection(blocks[k], sectionHeading)]
        r == scanLoop(blocks, match, 0, -1)
    IN  IF r.sectionIndex = -1
        THEN [found |-> FALSE, startIndex |-> -1, endIndex |-> -1]
        ELSE [found |-> TRUE,
              startIndex |-> r.sectionIndex,
              endIndex |-> IF r.nextHeadingIndex = -1 THEN Len(blocks)
                           ELSE r.nextHeadingIndex]

\* Bounds and inputs of the scanner specification
MaxScanLen == 4
ScanNodes ==
    { [type |-> "heading_2", text |-> InfoHeading],
      [type |-> "heading_1", text |-> " Project information"],
      [type |-> "heading_3", text |-> TaskHeading],
      [type |-> "heading_2", text |-> "Notes"],
      [type |-> "paragraph", text |-> "project info"] }

RECURSIVE SeqsOfLen(_, _)
SeqsOfLen(S, n) ==
    IF n = 0 THEN {<<>>}
    ELSE { Append(q, x) : q \in SeqsOfLen(S, n - 1), x \in S }

SeqsUpTo(S, n) == UNION { SeqsOfLen(S, k) : k \in 0..n }

ScanInit ==
    /\ scanBlocks \in SeqsUpTo(ScanNodes, MaxScanLen)
    /\ scanFn = ""
    /\ scanOut = None

ScanProjectInfo ==
    /\ scanOut = None
    /\ scanFn' = "findProjectInfoSection"
    /\ scanOut' = Some(findProjectInfoSection(scanBlocks))
    /\ UNCHANGED <<scanBlocks, notScan>>

ScanQuickSection ==
    /\ scanOut = None
    /\ \E h \in {TaskHeading, InfoHeading} :
          /\ scanFn' = h
          /\ scanOut' = Some(locateSection(scanBlocks, h))
    /\ UNCHANGED <<scanBlocks, notScan>>

ScanIdle ==
    /\ scanBlocks = <<>> /\ scanFn = "" /\ scanOut = None

----------------------------------------------------------------------------
(* Project inference (inference.js).                                       *)

\* PROJECT_KEYWORDS, in the order of its entries (Object.entries order)
PROJECT_KEYWORDS ==
    << [project |-> "ClickUp",
        keywords |-> <<"clickup", "click up", "click-up", "cu", "cuarc">>],
       [project |-> "Docebo",
        keywords |-> <<"docebo", "lms", "learning management", "cogent uni", "uni">>],
       [project |-> "HubSpot",
        keywords |-> <<"hubspot", "crm", "hs", "hub spot">>],
       [project |-> "AI Sales",
        keywords |-> <<"ai sales", "retell", "retellai", "retell ai", "sai", "sales ai">>],
       [project |-> "Insider Knowledge",
        keywords |-> <<"insider", "insider knowledge", "ik", "merlin">>],
       [project |-> "PD OTN",
        keywords |-> <<"pd", "otn", "pd otn", "professional development">>],
       [project |-> "Podcast",
        keywords |-> <<"podcast", "episode", "recording", "riverside">>],
       [project |-> "Quarterly Economic Review",
        keywords |-> <<"qer", "economic review", "quarterly", "eco repo">>],
       [project |-> "Support/Other", keywords |-> <<>>] >>

\* Confidences and the review threshold, in tenths
ConfidenceOverride == 10
ConfidenceKeyword == 8
ConfidenceFallback == 0
ReviewThreshold == 6

\* \w of a regular expression
IsWordChar(c) ==
    HasChar(UpperLetters, c) \/ HasChar(LowerLetters, c) \/ HasChar(Digits, c) \/ c = "_"

\* The \w+ that starts at position i: the longest run of word characters
RECURSIVE wordRun(_, _)
wordRun(text, i) ==
    IF i <= Len(text) /\ IsWordChar(CharAt(text, i))
    THEN CharAt(text, i) \o wordRun(text, i + 1)
    ELSE ""

\* The positions where /#proj:(\w+)/i matches
tagPositions(text) ==
    { i \in 1..Len(text) :
        /\ i + 6 <= Len(text)
        /\ toLowerCase(SubSeq(text, i, i + 5)) = "#proj:"
        /\ IsWordChar(CharAt(text, i + 6)) }

\* text.match(/#proj:(\w+)/i): None, or Some(match[1]) of the leftmost match
matchProjTag(text) ==
    IF tagPositions(text) = {} THEN None
    ELSE LET i == CHOOSE i \in tagPositions(text) : \A j \in tagPositions(text) : i <= j
         IN  Some(wordRun(text, i + 6))

\* project.toLowerCase().includes(projectName) || keywords.some(kw => kw.includes(projectName))
tagMatchesEntry(entry, projectName) ==
    \/ includes(toLowerCase(entry.project), projectName)
    \/ \E k \in 1..Len(entry.keywords) : includes(entry.keywords[k], projectName)

\* The inner for loop of extractHashtagProject: the first entry that matches
firstEntryForTag(projectName) ==
    IF \E e \in 1..Len(PROJECT_KEYWORDS) : tagMatchesEntry(PROJECT_KEYWORDS[e], projectName)
    THEN Some(PROJECT_KEYWORDS[
             CHOOSE e \in 1..Len(PROJECT_KEYWORDS) :
                /\ tagMatchesEntry(PROJECT_KEYWORDS[e], projectName)
                /\ \A f \in 1..(e - 1) : ~tagMatchesEntry(PROJECT_KEYWORDS[f], projectName)
          ].project)
    ELSE None

\* extractHashtagProject, from block i on: null is None
RECURSIVE extractHashtagProjectFrom(_, _)
extractHashtagProjectFrom(blocks, i) ==
    IF i >= Len(blocks) THEN None
    ELSE LET block == At(blocks, i)
             match == IF block.type = "paragraph" THEN matchProjTag(block.text) ELSE None
             hit == IF match = None THEN None ELSE firstEntryForTag(toLowerCase(match[1]))
         IN  IF hit # None
             THEN Some([project |-> hit[1], confidence |-> ConfidenceOverride])
             ELSE extractHashtagProjectFrom(blocks, i + 1)

extractHashtagProject(blocks) == extractHashtagProjectFrom(blocks, 0)

\* keywords of the entry tested against the title, in order
titleMatchesEntry(entry, titleLower) ==
    \E k \in 1..Len(entry.keywords) : includes(titleLower, entry.keywords[k])

\* The title loop of inferProject over the entries in `order`
inferFromTitle(meetingTitle, order) ==
    LET titleLower == toLowerCase(meetingTitle)
        hits == { e \in 1..Len(order) :
                    /\ order[e].project # "Support/Other"
                    /\ titleMatchesEntry(order[e], titleLower) }
    IN  IF hits # {}
        THEN [project |-> order[CHOOSE e \in hits : \A f \in hits : e <= f].project,
              confidence |-> ConfidenceKeyword]
        ELSE [project |-> "Support/Other", confidence |-> ConfidenceFallback]

\* PROJECT_KEYWORDS with HubSpot before Docebo (the order of the select options)
SelectOptionOrder ==
    <<PROJECT_KEYWORDS[1], PROJECT_KEYWORDS[3], PROJECT_KEYWORDS[2]>>
        \o SubSeq(PROJECT_KEYWORDS, 4, Len(PROJECT_KEYWORDS))

inferProjectSelectOrder(meetingTitle, blocks) ==
    LET hashtagProject == extractHashtagProject(blocks)
    IN  IF hashtagProject # None THEN hashtagProject[1]
        ELSE inferFromTitle(meetingTitle, SelectOptionOrder)

inferProject(meetingTitle, blocks) ==
    LET hashtagProject == extractHashtagProject(blocks)
    IN  IF hashtagProject # None THEN hashtagProject[1]
        ELSE inferFromTitle(meetingTitle, PROJECT_KEYWORDS)

needsReview(confidence) == confidence < ReviewThreshold

\* Bounds and inputs of the inference specification
MaxInferBlocks == 2
InferTitles ==
    { "ClickUp Sync", "CRM and LMS review", "Weekly", "Focus time", "QER podcast" }
InferNodes ==
    { [type |-> "paragraph", text |-> "see #Proj:HubSpot."],
      [type |-> "paragraph", text |-> "#proj:zzz #proj:docebo"],
      [type |-> "paragraph", text |-> "#proj:zzz"],
      [type |-> "paragraph", text |-> "notes"],
      [type |-> "to_do", text |-> "#proj:podcast"] }

InfInit ==
    /\ infTitle \in InferTitles
    /\ infBlocks \in SeqsUpTo(InferNodes, MaxInferBlocks)
    /\ infOut = None

InfInfer ==
    /\ infOut = None
    /\ LET inferred == inferProject(infTitle, infBlocks)
       IN  infOut' = Some([project |-> inferred.project,
                           confidence |-> inferred.confidence,
                           needsReview |-> needsReview(inferred.confidence)])
    /\ UNCHANGED <<infTitle, infBlocks, notInf>>

InfIdle ==
    /\ infTitle = "" /\ infBlocks = <<>> /\ infOut = None

----------------------------------------------------------------------------
(* Work-item extraction (extractors.js, project_info_extractor.js).        *)

\* extractTodos: the to_do nodes with a non-empty trimmed text, in order
RECURSIVE extractTodosFrom(_, _)
extractTodosFrom(blocks, i) ==
    IF i >= Len(blocks) THEN <<>>
    ELSE LET block == At(blocks, i)
             text == trim(block.text)
         IN  (IF block.type = "to_do" /\ text # ""
              THEN <<[text |-> text, checked |-> block.checked]>>
              ELSE <<>>) \o extractTodosFrom(blocks, i + 1)

extractTodosAfterFirst(blocks) == extractTodosFrom(blocks, 1)

extractTodos(blocks) == extractTodosFrom(blocks, 0)

getMeetingTitle(page) == trim(page.Title)

\* null is None
getProjectFromPage(page) == page.Project

\* The bullet glyph of extractInfoBullets, written as one character
BulletGlyph == "@"

\* text.replace(/^[-<bullet>]\s*/, '')
stripLeadingDash(text) ==
    IF Len(text) > 0 /\ CharAt(text, 1) \in {"-", BulletGlyph}
    THEN trimStart(SubSeq(text, 2, Len(text)))
    ELSE text

MinParagraphLen == 10

\* extractInfoBullets: the loop from index i to endIndex
RECURSIVE extractInfoBulletsFrom(_, _, _)
extractInfoBulletsFrom(blocks, i, endIndex) ==
    IF i >= endIndex THEN <<>>
    ELSE LET block == At(blocks, i)
             text == trim(block.text)
             cleaned == trim(stripLeadingDash(text))
             here ==
                IF block.type \in {"bulleted_list_item", "numbered_list_item"}
                THEN (IF text # "" THEN <<text>> ELSE <<>>)
                ELSE IF block.type = "paragraph"
                        /\ text # ""
                        /\ ( \/ startsWith(text, "-")
                             \/ startsWith(text, BulletGlyph)
                             \/ Len(text) > MinParagraphLen )
                        /\ cleaned # ""
                     THEN <<cleaned>>
                ELSE <<>>
         IN  here \o extractInfoBulletsFrom(blocks, i + 1, endIndex)

extractInfoBulletsToLast(blocks, startIndex, endIndex) ==
    extractInfoBulletsFrom(blocks, startIndex + 1, Len(blocks))

extractInfoBullets(blocks, startIndex, endIndex) ==
    extractInfoBulletsFrom(blocks, startIndex + 1, endIndex)

\* The bullets that hasProjectInfo and extractAndCategorize find
projectInfoBullets(blocks) ==
    LET section == findProjectInfoSection(blocks)
    IN  IF ~section.found THEN <<>>
        ELSE extractInfoBullets(blocks, section.startIndex, section.endIndex)

----------------------------------------------------------------------------
(* The poll cycle and the meeting pass (automation.js), with the document  *)
(* store it talks to.  One action per remote call; a remote call may fail. *)
(* The store keeps last_edited_time as the time of the last edit made by   *)
(* a user; the clock advances with every user edit and every timestamp the *)
(* engine takes, so that no two of them are equal.                         *)

MeetingIds == <<"m1", "m2">>      \* in the order of the query's sort
MaxClock == 4
MaxFailures == 1

TodoA == [type |-> "to_do", text |-> "Email Karen", checked |-> TRUE]
TodoA2 == [type |-> "to_do", text |-> " email karen ", checked |-> FALSE]
TodoB == [type |-> "to_do", text |-> "Call Bob", checked |-> FALSE]
TodoBlank == [type |-> "to_do", text |-> "  ", checked |-> FALSE]
InfoNodes ==
    << [type |-> "heading_2", text |-> "Project Info"],
       [type |-> "bulleted_list_item", text |-> "api key 123"] >>

\* The contents a user gives a meeting page
Contents ==
    { <<[type |-> "paragraph", text |-> "#proj:docebo"], TodoA, TodoA2>>,
      <<TodoA, TodoB>> \o InfoNodes,
      <<[type |-> "paragraph", text |-> "notes"], TodoBlank>> }

\* The pages a user works on while the engine runs
EditedIds == {"m1"}

NoPass ==
    [ meeting |-> None, todos |-> <<>>, i |-> 0, project |-> "",
      needsReview |-> FALSE, confidence |-> None, created |-> 0, skipped |-> 0,
      failed |-> 0, present |-> {} ]

NoWrite == None

\* A page of the Meetings database as a user creates it
NewMeeting(title, project, content) ==
    [ Title |-> title, Project |-> project, Processed |-> Some(FALSE),
      LastProcessed |-> None, NeedsReview |-> None, last_edited_time |-> 0,
      blocks |-> content ]

MainInit ==
    /\ \E project \in {None, Some("HubSpot")}, content \in Contents :
          meetings = [ id \in {"m1", "m2"} |->
                         IF id = "m1"
                         THEN NewMeeting("ClickUp Sync", project, content)
                         ELSE NewMeeting("Weekly", None, <<TodoA>>) ]
    /\ tasks = EmptyBag
    /\ now = 0
    /\ pc = "idle"
    /\ queue = <<>>
    /\ pass = NoPass
    /\ routed = {}
    /\ unread = [m \in DOMAIN meetings |-> FALSE]
    /\ userSet = [m \in DOMAIN meetings |-> meetings[m].Project # None]
    /\ lastWrite = NoWrite
    /\ failures = 0
    /\ stopped = FALSE

\* Meeting pages that carry a Project Info section, with and without
\* to-dos above it
InfoPassContents ==
    { <<[type |-> "paragraph", text |-> "notes"]>> \o InfoNodes,
      <<TodoBlank>> \o InfoNodes,
      <<TodoA>> \o InfoNodes,
      <<TodoB, TodoBlank, TodoA, TodoA2>> \o InfoNodes }

InfoPassInit ==
    /\ \E project \in {None, Some("HubSpot")}, content \in InfoPassContents :
          meetings = [ id \in {"m1", "m2"} |->
                         IF id = "m1"
                         THEN NewMeeting("ClickUp Sync", project, content)
                         ELSE NewMeeting("Weekly", None, <<TodoA, TodoB>>) ]
    /\ tasks = EmptyBag
    /\ now = 0
    /\ pc = "idle"
    /\ queue = <<>>
    /\ pass = NoPass
    /\ routed = {}
    /\ unread = [m \in DOMAIN meetings |-> FALSE]
    /\ userSet = [m \in DOMAIN meetings |-> meetings[m].Project # None]
    /\ lastWrite = NoWrite
    /\ failures = 0
    /\ stopped = FALSE

\* The filter of the query of pollMeetings
queryFilter(page) ==
    \/ page.Processed = Some(FALSE)
    \/ page.Processed = Some(TRUE) /\ page.LastProcessed # None

\* The ids of the pages the query returns, in its sort order
RECURSIVE queryMeetings(_)
queryMeetings(n) ==
    IF n > Len(MeetingIds) THEN <<>>
    ELSE LET id == MeetingIds[n]
             page == meetings[id]
         IN  (IF queryFilter(page) THEN <<id>> ELSE <<>>) \o queryMeetings(n + 1)

\* The page object of the response: what the engine reads of it later
pageObject(id) ==
    [ id |-> id, Title |-> meetings[id].Title, Project |-> meetings[id].Project ]

meetingsUnfiltered(ids) == [k \in 1..Len(ids) |-> pageObject(ids[k])]

\* response.results.filter(meeting => shouldProcessMeeting(meeting))
RECURSIVE meetingsToProcess(_)
meetingsToProcess(ids) ==
    IF ids = <<>> THEN <<>>
    ELSE (IF shouldProcessMeeting(meetings[Head(ids)])
          THEN <<pageObject(Head(ids))>> ELSE <<>>) \o meetingsToProcess(Tail(ids))

\* A remote call returns, or throws after the retries of apiCall
CallSucceeds == UNCHANGED failures
CallFails == failures < MaxFailures /\ failures' = failures + 1

\* pollMeetings: the query and the filter; a failed query ends the poll
PollStart ==
    /\ pc = "idle"
    /\ \/ /\ CallSucceeds
          /\ queue' = meetingsToProcess(queryMeetings(1))
          /\ pc' = "next"
       \/ /\ CallFails
          /\ UNCHANGED <<queue, pc>>
    /\ UNCHANGED <<meetings, tasks, now, pass, routed, unread, userSet,
                   lastWrite, stopped,
                   notMain>>

\* pollMeetings: the next meeting of the loop, or the end of the cycle
PollNext ==
    /\ pc = "next"
    /\ IF queue = <<>>
       THEN /\ pc' = "idle"
            /\ pass' = NoPass
            /\ UNCHANGED queue
       ELSE /\ pass' = [NoPass EXCEPT !.meeting = Some(Head(queue))]
            /\ queue' = Tail(queue)
            /\ pc' = "fetch"
    /\ lastWrite' = NoWrite
    /\ UNCHANGED <<meetings, tasks, now, routed, unread, userSet, failures, stopped,
                   notMain>>

\* The catch of processMeeting: the pass returns {created: 0, skipped: 0}
PassAbort == CallFails /\ pc' = "next"

\* processMeeting: getAllBlocksRecursive, extractTodos, the project
PassFetch ==
    /\ pc = "fetch"
    /\ LET meeting == pass.meeting[1]
           blocks == meetings[meeting.id].blocks
           todos == extractTodos(blocks)
           project == getProjectFromPage(meeting)
           inferred == inferProject(getMeetingTitle(meeting), blocks)
       IN  \/ /\ CallSucceeds
              /\ pass' = [pass EXCEPT
                    !.todos = todos,
                    !.project = IF project = None THEN inferred.project ELSE project[1],
                    !.needsReview = IF project = None
                                    THEN needsReview(inferred.confidence) ELSE FALSE,
                    !.confidence = IF project = None
                                   THEN Some(inferred.confidence) ELSE None,
                    !.present = { k \in 1..Len(todos) :
                                    \E task \in BagToSet(tasks) :
                                       task.LineKey
                                         = generateLineKey(meeting.id, todos[k].text) }]
              /\ pc' = IF todos = <<>> THEN "markEmpty" ELSE "check"
              /\ unread' = [unread EXCEPT ![meeting.id] = FALSE]
           \/ /\ PassAbort
              /\ UNCHANGED <<pass, unread>>
    /\ UNCHANGED <<meetings, tasks, now, queue, routed, userSet, lastWrite, stopped,
                   notMain>>

taskExistsNever(lineKey) == FALSE

\* taskExists: a record of the task collection has this Line Key
taskExists(lineKey) == \E task \in BagToSet(tasks) : task.LineKey = lineKey

\* processMeeting: the existence check of the current to-do
PassCheck ==
    /\ pc = "check"
    /\ LET meeting == pass.meeting[1]
           todo == pass.todos[pass.i + 1]
           lineKey == generateLineKey(meeting.id, todo.text)
       IN  \/ /\ CallSucceeds
              /\ taskExists(lineKey)
              /\ pass' = [pass EXCEPT !.skipped = @ + 1, !.i = @ + 1]
              /\ pc' = IF pass.i + 1 = Len(pass.todos) THEN "info" ELSE "check"
           \/ /\ CallSucceeds
              /\ ~taskExists(lineKey)
              /\ pc' = "create"
              /\ UNCHANGED pass
           \/ /\ PassAbort
              /\ UNCHANGED pass
    /\ UNCHANGED <<meetings, tasks, now, queue, routed, unread, userSet,
                   lastWrite, stopped,
                   notMain>>

\* processMeeting: createPage for the current to-do; a failure is caught
\* and counted as skipped
PassCreate ==
    /\ pc = "create"
    /\ LET meeting == pass.meeting[1]
           todo == pass.todos[pass.i + 1]
           lineKey == generateLineKey(meeting.id, todo.text)
       IN  \/ /\ CallSucceeds
              /\ tasks' = tasks (+) SetToBag({
                    [ Title |-> todo.text,
                      Status |-> IF todo.checked THEN "Done" ELSE "Backlog",
                      Project |-> pass.project,
                      FromMeeting |-> meeting.id,
                      LineKey |-> lineKey ] })
              /\ pass' = [pass EXCEPT !.created = @ + 1, !.i = @ + 1]
           \/ /\ CallFails
              /\ pass' = [pass EXCEPT !.skipped = @ + 1, !.failed = @ + 1,
                                      !.i = @ + 1]
              /\ UNCHANGED tasks
    /\ pc' = IF pass.i + 1 = Len(pass.todos) THEN "info" ELSE "check"
    /\ UNCHANGED <<meetings, now, queue, routed, unread, userSet,
                   lastWrite, stopped,
                   notMain>>

\* processMeeting: hasProjectInfo, extractAndCategorize, updateProjectPage.
\* None of them throws; the bullets are those of the page as it is now.
PassProjectInfo ==
    /\ pc = "info"
    /\ LET meeting == pass.meeting[1]
           bullets == projectInfoBullets(meetings[meeting.id].blocks)
       IN  \/ /\ bullets # <<>>
              /\ routed' = routed \cup
                   {[project |-> pass.project, bullets |-> bullets]}
           \/ UNCHANGED routed
    /\ pc' = "finish"
    /\ UNCHANGED <<meetings, tasks, now, queue, pass, unread, userSet,
                   lastWrite, failures, stopped,
                   notMain>>

\* The properties of the last updatePage of processMeeting
finishProps(meeting, project, review, stamp) ==
    IF getProjectFromPage(meeting) = None
    THEN [ Processed |-> Some(TRUE), LastProcessed |-> Some(stamp),
           Project |-> Some(project), NeedsReview |-> Some(review) ]
    ELSE [ Processed |-> Some(TRUE), LastProcessed |-> Some(stamp) ]

\* pages.update: the properties given replace those of the page
updatePage(page, props) ==
    [ f \in DOMAIN page |-> IF f \in DOMAIN props THEN props[f] ELSE page[f] ]

\* What a write of the engine to a meeting page leaves behind
WriteRecord(id, props) ==
    Some([ id |-> id, props |-> props,
           before |-> [ Project |-> meetings[id].Project,
                        NeedsReview |-> meetings[id].NeedsReview ],
           after |-> [ Project |-> updatePage(meetings[id], props).Project,
                       NeedsReview |-> updatePage(meetings[id], props).NeedsReview ],
           userSet |-> userSet[id],
           confidence |-> pass.confidence ])

\* processMeeting: the update that marks a meeting without to-dos
PassMarkEmpty ==
    /\ pc = "markEmpty"
    /\ now < MaxClock
    /\ LET id == pass.meeting[1].id
           props == [ Processed |-> Some(TRUE), LastProcessed |-> Some(now + 1) ]
       IN  \/ /\ CallSucceeds
              /\ meetings' = [meetings EXCEPT ![id] = updatePage(@, props)]
              /\ lastWrite' = WriteRecord(id, props)
              /\ now' = now + 1
              /\ pc' = "next"
           \/ /\ PassAbort
              /\ UNCHANGED <<meetings, lastWrite, now>>
    /\ UNCHANGED <<tasks, queue, pass, routed, unread, userSet, stopped,
                   notMain>>

\* processMeeting: the update that ends a pass
PassFinish ==
    /\ pc = "finish"
    /\ now < MaxClock
    /\ LET id == pass.meeting[1].id
           props == finishProps(pass.meeting[1], pass.project, pass.needsReview, now + 1)
       IN  \/ /\ CallSucceeds
              /\ meetings' = [meetings EXCEPT ![id] = updatePage(@, props)]
              /\ lastWrite' = WriteRecord(id, props)
              /\ userSet' = IF "Project" \in DOMAIN props
                            THEN [userSet EXCEPT ![id] = FALSE] ELSE userSet
              /\ now' = now + 1
              /\ pc' = "next"
           \/ /\ PassAbort
              /\ UNCHANGED <<meetings, lastWrite, userSet, now>>
    /\ UNCHANGED <<tasks, queue, pass, routed, unread, stopped,
                   notMain>>

\* A user edits the content of a meeting page, at any time
UserEdit ==
    /\ now < MaxClock
    /\ \E id \in EditedIds, content \in Contents :
          /\ content # meetings[id].blocks
          /\ meetings' = [meetings EXCEPT ![id].blocks = content,
                                          ![id].last_edited_time = now + 1]
          /\ unread' = [unread EXCEPT ![id] =
                          \/ @
                          \/ /\ meetings[id].Processed = Some(TRUE)
                             /\ meetings[id].LastProcessed # None]
    /\ now' = now + 1
    /\ UNCHANGED <<tasks, pc, queue, pass, routed, userSet, lastWrite,
                   failures, stopped,
                   notMain>>

\* A user sets the project of a meeting page, at any time
UserSetProject ==
    /\ now < MaxClock
    /\ \E id \in EditedIds :
          /\ meetings[id].Project # Some("HubSpot")
          /\ meetings' = [meetings EXCEPT ![id].Project = Some("HubSpot"),
                                          ![id].last_edited_time = now + 1]
          /\ userSet' = [userSet EXCEPT ![id] = TRUE]
    /\ now' = now + 1
    /\ UNCHANGED <<tasks, pc, queue, pass, routed, unread, lastWrite,
                   failures, stopped,
                   notMain>>

\* The process ends (it handles no signal and keeps no state of its own) and
\* is started again: what a pass held in memory is lost, what it wrote to
\* the store stays, and startPolling begins with a new pollMeetings.  A
\* stop counts as one of the failures of a behaviour.
ProcessStop ==
    /\ pc \in {"fetch", "check", "create", "info", "finish", "markEmpty"}
    /\ CallFails
    /\ stopped' = TRUE
    /\ pc' = "idle"
    /\ queue' = <<>>
    /\ pass' = NoPass
    /\ lastWrite' = NoWrite
    /\ UNCHANGED <<meetings, tasks, now, routed, unread, userSet, notMain>>

MainIdle ==
    /\ meetings = <<>> /\ tasks = EmptyBag /\ now = 0 /\ pc = "off"
    /\ queue = <<>> /\ pass = NoPass /\ routed = {}
    /\ unread = <<>> /\ userSet = <<>> /\ lastWrite = NoWrite /\ failures = 0
    /\ stopped = FALSE

----------------------------------------------------------------------------
(* Routing to a project page (openai_client.js): updateProjectPage  *)
(* and appendToSection, one action per attempt of appendToSection.  A page *)
(* is the sequence of its top-level nodes.                                 *)

\* The emoji of the project page headings are written as one character each
CredentialsHeading == "! Credentials & Access"
ContactsHeading == "? Key Contacts"
LinksHeading == "^ Important Links"
DecisionsHeading == "* Project Context & Decisions"

FirstIndexOf(s, c) ==
    CHOOSE i \in 1..Len(s) :
        CharAt(s, i) = c /\ \A j \in 1..(i - 1) : CharAt(s, j) # c

\* sectionHeading.split(' ').slice(1).join(' ')
afterFirstWord(s) ==
    IF HasChar(s, " ") THEN SubSeq(s, FirstIndexOf(s, " ") + 1, Len(s)) ELSE ""

\* The heading test of appendToSection
matchesHeading(block, sectionHeading) ==
    /\ isHeading(block)
    /\ LET text == trim(block.text)
       IN  text = sectionHeading \/ includes(text, afterFirstWord(sectionHeading))

\* The for loop of appendToSection: the index of the first node that
\* matches, -1 when there is none
RECURSIVE findSectionFrom(_, _, _)
findSectionFrom(blocks, sectionHeading, i) ==
    IF i >= Len(blocks) THEN -1
    ELSE IF matchesHeading(At(blocks, i), sectionHeading) THEN i
    ELSE findSectionFrom(blocks, sectionHeading, i + 1)

findSection(blocks, sectionHeading) == findSectionFrom(blocks, sectionHeading, 0)

\* content.split('\n')
RECURSIVE splitLines(_)
splitLines(content) ==
    IF ~HasChar(content, "\n") THEN <<content>>
    ELSE LET n == FirstIndexOf(content, "\n")
         IN  <<SubSeq(content, 1, n - 1)>>
               \o splitLines(SubSeq(content, n + 1, Len(content)))

\* items.join('\n')
RECURSIVE joinLines(_)
joinLines(items) ==
    IF items = <<>> THEN ""
    ELSE IF Len(items) = 1 THEN items[1]
    ELSE items[1] \o "\n" \o joinLines(Tail(items))

\* line.trim().replace(/^-\s*/, '')
cleanLine(line) ==
    LET text == trim(line)
    IN  IF startsWith(text, "-") THEN trimStart(SubSeq(text, 2, Len(text))) ELSE text

\* The bulleted list items made of the non-blank lines of a content
RECURSIVE bulletsOf(_)
bulletsOf(lines) ==
    IF lines = <<>> THEN <<>>
    ELSE (IF Len(trim(Head(lines))) > 0
          THEN <<[type |-> "bulleted_list_item", text |-> cleanLine(Head(lines))]>>
          ELSE <<>>) \o bulletsOf(Tail(lines))

bulletBlocks(content) == bulletsOf(splitLines(content))

insertAtEnd(blocks, i, children) == blocks \o children

\* blocks.children.append({children, after}): the children follow the node
\* at index i
insertAfter(blocks, i, children) ==
    SubSeq(blocks, 1, i + 1) \o children \o SubSeq(blocks, i + 2, Len(blocks))

formatEntry(content) == content

RECURSIVE eachTo(_, _)
eachTo(items, sectionHeading) ==
    IF items = <<>> THEN <<>>
    ELSE <<[sectionHeading |-> sectionHeading, content |-> formatEntry(Head(items))]>>
           \o eachTo(Tail(items), sectionHeading)

joinedToLinks(items) ==
    IF items = <<>> THEN <<>>
    ELSE <<[sectionHeading |-> LinksHeading, content |-> joinLines(items)]>>

\* One append to the decisions log with the items joined
joinedTo(items) ==
    IF items = <<>> THEN <<>>
    ELSE <<[sectionHeading |-> DecisionsHeading, content |-> joinLines(items)]>>

\* The appendToSection calls of updateProjectPage, in their order
appendsOf(categorized) ==
    eachTo(categorized.credentials, CredentialsHeading)
      \o eachTo(categorized.contacts, ContactsHeading)
      \o eachTo(categorized.links, LinksHeading)
      \o joinedTo(categorized.decisions)
      \o joinedTo(categorized.other)

MaxItems == 2
MaxBundle == 3
MaxRouteFailures == 1
MaxRuns == 2
MaxRetries == 2

\* The first n items of a category; every second one is written with a
\* dash, or is blank among the uncategorized ones
ItemsOf(tag, n) ==
    [ k \in 1..n |->
        IF k % 2 = 1 THEN tag \o CharAt(Digits, k + 1)
        ELSE IF tag = "o" THEN " "
        ELSE "- " \o tag \o CharAt(Digits, k + 1) ]

Bundles ==
    { [ credentials |-> ItemsOf("c", n[1]), contacts |-> ItemsOf("p", n[2]),
        links |-> ItemsOf("l", n[3]), decisions |-> ItemsOf("d", n[4]),
        other |-> ItemsOf("o", n[5]) ] :
        n \in { m \in [1..5 -> 0..MaxItems] :
                  m[1] + m[2] + m[3] + m[4] + m[5] \in 1..MaxBundle } }

Heading(text) == [type |-> "heading_2", text |-> text]

RoutePages ==
    { << Heading(CredentialsHeading), Heading(ContactsHeading),
         Heading(LinksHeading), Heading(DecisionsHeading) >>,
      << Heading(DecisionsHeading),
         [type |-> "bulleted_list_item", text |-> "old"],
         Heading(CredentialsHeading), Heading(LinksHeading) >>,
      << Heading(CredentialsHeading), Heading(LinksHeading) >>,
      << [type |-> "paragraph", text |-> DecisionsHeading],
         [type |-> "heading_3", text |-> "Project Context & Decisions "],
         Heading(ContactsHeading) >>,
      << >> }

NoCall == None

RouteInit ==
    /\ routePage \in RoutePages
    /\ routeFound \in BOOLEAN
    /\ routeBundle \in Bundles
    /\ routePc = "start"
    /\ routeWork = <<>>
    /\ routeCall = NoCall
    /\ routeOk = 0
    /\ routeTotal = 0
    /\ routeOut = None
    /\ routeLog = <<>>
    /\ routeFailures = 0
    /\ routeDone = <<>>
    /\ routeRun = 1
    /\ routeFirst = None

RouteCallFails == routeFailures < MaxRouteFailures /\ routeFailures' = routeFailures + 1

\* updateProjectPage: findProjectPage, which gives null when no page has
\* the name and when its query fails
RouteStart ==
    /\ routePc = "start"
    /\ \/ /\ routeFound
          /\ routeWork' = appendsOf(routeBundle)
          /\ routePc' = "items"
          /\ UNCHANGED <<routeOut, routeFailures>>
       \/ /\ ~routeFound
          /\ routeOut' = Some(FALSE)
          /\ routePc' = "done"
          /\ UNCHANGED <<routeWork, routeFailures>>
       \/ /\ RouteCallFails
          /\ routeOut' = Some(FALSE)
          /\ routePc' = "done"
          /\ UNCHANGED routeWork
    /\ UNCHANGED <<routePage, routeFound, routeBundle, routeCall, routeOk,
                   routeTotal, routeLog, routeDone, routeRun, routeFirst, notRoute>>

\* updateProjectPage: the next appendToSection call, with the default
\* fallback section
RouteNextItem ==
    /\ routePc = "items"
    /\ routeWork # <<>>
    /\ routeCall' = Some([ sectionHeading |-> Head(routeWork).sectionHeading,
                           content |-> Head(routeWork).content,
                           fallbackSection |-> Some(DecisionsHeading),
                           retryCount |-> 0,
                           primary |-> Head(routeWork).sectionHeading,
                           before |-> routePage,
                           caught |-> 0 ])
    /\ routeWork' = Tail(routeWork)
    /\ routeTotal' = routeTotal + 1
    /\ routePc' = "attempt"
    /\ UNCHANGED <<routePage, routeFound, routeBundle, routeOk, routeOut,
                   routeLog, routeFailures, routeDone, routeRun, routeFirst, notRoute>>

anySuccessAlways(successCount) == TRUE

\* successCount > 0
anySuccess(successCount) == successCount > 0

\* updateProjectPage: return successCount > 0
RouteFinish ==
    /\ routePc = "items"
    /\ routeWork = <<>>
    /\ routeOut' = Some(anySuccess(routeOk))
    /\ routePc' = "done"
    /\ UNCHANGED <<routePage, routeFound, routeBundle, routeWork, routeCall,
                   routeOk, routeTotal, routeLog, routeFailures, routeDone,
                   routeRun, routeFirst, notRoute>>

\* appendToSection returns to updateProjectPage; the call is recorded with
\* the section it began and ended with, the page before and after it, its
\* result and the errors it caught
RouteReturn(success, caught) ==
    /\ routeOk' = IF success THEN routeOk + 1 ELSE routeOk
    /\ routeDone' = Append(routeDone,
          [ primary |-> routeCall[1].primary,
            section |-> routeCall[1].sectionHeading,
            content |-> routeCall[1].content,
            before |-> routeCall[1].before,
            after |-> routePage',
            result |-> success,
            caught |-> caught,
            retryCount |-> routeCall[1].retryCount ])
    /\ routeCall' = NoCall
    /\ routePc' = "items"

\* The catch of appendToSection: a retry after a timeout or a 429 while
\* retryCount < 2, false otherwise
RouteCatch ==
    /\ RouteCallFails
    /\ \E error \in {"timeout", "rate_limited", "other"} :
          IF error \in {"timeout", "rate_limited"} /\ routeCall[1].retryCount < MaxRetries
          THEN /\ routeCall' = Some([routeCall[1] EXCEPT !.retryCount = @ + 1,
                                                          !.caught = @ + 1])
               /\ UNCHANGED <<routeOk, routePc, routeDone>>
          ELSE RouteReturn(FALSE, routeCall[1].caught + 1)

\* How appendToSection issues its remote calls: the child listing is
\* client.getTopLevelBlocks, which goes through apiCall; the append is
\* client.notion.blocks.children.append, the store client called directly
listThrough == "apiCall"
appendThrough == "notion"

fallbackNever(call) == FALSE

\* if (fallbackSection && sectionHeading !== fallbackSection)
fallbackAllowed(call) ==
    call.fallbackSection # None /\ call.sectionHeading # call.fallbackSection[1]

\* One attempt of appendToSection: the top-level nodes, the section, the
\* switch to the fallback section, the append
RouteAttempt ==
    /\ routePc = "attempt"
    /\ LET call == routeCall[1]
           blocks == routePage
           index == findSection(blocks, call.sectionHeading)
           children == bulletBlocks(call.content)
       IN  \/ /\ UNCHANGED <<routePage, routeLog>>
              /\ RouteCatch
           \/ /\ index = -1
              /\ fallbackAllowed(call)
              /\ routeCall' = Some([call EXCEPT
                                      !.sectionHeading = call.fallbackSection[1],
                                      !.fallbackSection = None])
              /\ UNCHANGED <<routePage, routeLog, routeOk, routePc, routeFailures,
                             routeDone>>
           \/ /\ index = -1
              /\ ~fallbackAllowed(call)
              /\ UNCHANGED <<routePage, routeLog, routeFailures>>
              /\ RouteReturn(FALSE, call.caught)
           \/ /\ index # -1
              /\ routePage' = insertAfter(routePage, index, children)
              /\ routeLog' = Append(routeLog,
                    [ after |-> index, heading |-> At(blocks, index).text,
                      section |-> call.sectionHeading, children |-> children,
                      listed |-> listThrough, through |-> appendThrough ])
              /\ RouteReturn(TRUE, call.caught)
              /\ UNCHANGED routeFailures
    /\ UNCHANGED <<routeFound, routeBundle, routeWork, routeTotal, routeOut, routeRun, routeFirst, notRoute>>

\* processMeeting passes the same categorized items to updateProjectPage
\* again: the meeting page was edited, its Project Info section is as it was
RouteAgain ==
    /\ routePc = "done"
    /\ routeRun < MaxRuns
    /\ routeRun' = routeRun + 1
    /\ routeFirst' = IF routeRun = 1 THEN Some(routePage) ELSE routeFirst
    /\ routePc' = "start"
    /\ routeOut' = None
    /\ routeOk' = 0
    /\ routeTotal' = 0
    /\ routeLog' = <<>>
    /\ routeDone' = <<>>
    /\ UNCHANGED <<routePage, routeFound, routeBundle, routeWork, routeCall,
                   routeFailures, notRoute>>

RouteIdle ==
    /\ routePage = <<>> /\ routeFound = FALSE /\ routeBundle = <<>>
    /\ routePc = "off" /\ routeWork = <<>> /\ routeCall = NoCall
    /\ routeOk = 0 /\ routeTotal = 0 /\ routeOut = None
    /\ routeLog = <<>> /\ routeFailures = 0 /\ routeDone = <<>>
    /\ routeRun = 0 /\ routeFirst = None

----------------------------------------------------------------------------
(* The remote call wrapper (notion_client.js): apiCall, one action per     *)
(* delay, invocation and catch.  The trace lists the delays awaited and    *)
(* the invocations of the wrapped operation, in order.                     *)

RATE_LIMIT_DELAY == 350
MAX_RETRIES == 5
BackoffBase == 1000
BackoffCap == 10000

Min(a, b) == IF a < b THEN a ELSE b

getBackoffDelayUncapped(attempt, jitter) == BackoffBase * 2 ^ attempt + jitter

\* getBackoffDelay, with the value of Math.random() * 1000 given
getBackoffDelay(attempt, jitter) == Min(BackoffBase * 2 ^ attempt, BackoffCap) + jitter

\* Values of Math.random() * 1000, rounded down
Jitters == {0, 999}

\* The errors the wrapped operation throws
ApiErrors ==
    { [code |-> "rate_limited", status |-> 429],
      [code |-> "unknown", status |-> 429],
      [code |-> "validation_error", status |-> 400],
      [code |-> "notionhq_client_request_timeout", status |-> 0] }

isRateLimitedAny(error) == TRUE

\* error.code === 'rate_limited' || error.status === 429
isRateLimited(error) == error.code = "rate_limited" \/ error.status = 429

pacingFirstOnly(attempt) ==
    IF attempt = 0 THEN <<[kind |-> "delay", ms |-> RATE_LIMIT_DELAY]>> ELSE <<>>

\* await delay(RATE_LIMIT_DELAY) at the head of the loop body
pacing(attempt) == <<[kind |-> "delay", ms |-> RATE_LIMIT_DELAY]>>

ApiInit ==
    /\ apiPc = "pace"
    /\ apiAttempt = 0
    /\ apiTrace = <<>>
    /\ apiLastError = None
    /\ apiResult = None

\* for (attempt = 0; attempt < MAX_RETRIES; attempt++): the pacing delay,
\* or throw lastError when the loop has ended
ApiPace ==
    /\ apiPc = "pace"
    /\ IF apiAttempt < MAX_RETRIES
       THEN /\ apiTrace' = apiTrace \o pacing(apiAttempt)
            /\ apiPc' = "invoke"
            /\ UNCHANGED apiResult
       ELSE /\ apiResult' = Some([thrown |-> TRUE, error |-> apiLastError[1]])
            /\ apiPc' = "done"
            /\ UNCHANGED apiTrace
    /\ UNCHANGED <<apiAttempt, apiLastError, notApi>>

\* return await fn(...args): the operation returns or throws
ApiInvoke ==
    /\ apiPc = "invoke"
    /\ \/ /\ apiTrace' = Append(apiTrace, [kind |-> "call", attempt |-> apiAttempt,
                                           error |-> None])
          /\ apiResult' = Some([thrown |-> FALSE, error |-> None])
          /\ apiPc' = "done"
          /\ UNCHANGED apiLastError
       \/ \E error \in ApiErrors :
          /\ apiTrace' = Append(apiTrace, [kind |-> "call", attempt |-> apiAttempt,
                                           error |-> Some(error)])
          /\ apiLastError' = Some(error)
          /\ apiPc' = "catch"
          /\ UNCHANGED apiResult
    /\ UNCHANGED <<apiAttempt, notApi>>

\* The catch: the backoff delay and the next attempt after a rate limit,
\* the error thrown again otherwise
ApiCatch ==
    /\ apiPc = "catch"
    /\ IF isRateLimited(apiLastError[1])
       THEN /\ \E jitter \in Jitters :
                 apiTrace' = Append(apiTrace,
                    [kind |-> "delay", ms |-> getBackoffDelay(apiAttempt, jitter)])
            /\ apiAttempt' = apiAttempt + 1
            /\ apiPc' = "pace"
            /\ UNCHANGED apiResult
       ELSE /\ apiResult' = Some([thrown |-> TRUE, error |-> apiLastError[1]])
            /\ apiPc' = "done"
            /\ UNCHANGED <<apiTrace, apiAttempt>>
    /\ UNCHANGED <<apiLastError, notApi>>

ApiIdle ==
    /\ apiPc = "off" /\ apiAttempt = 0 /\ apiTrace = <<>>
    /\ apiLastError = None /\ apiResult = None

----------------------------------------------------------------------------
(* Quick entries (automation.js, quick_todo_processor_v2.js): the          *)
(* selection of a record of the task collection as a quick entry and the   *)
(* task channel of processQuickTodo.  A record is its properties; the text *)
(* of a title is the concatenation of its rich-text runs.                  *)

\* title.map(t => t.plain_text).join('')
RECURSIVE plainText(_)
plainText(runs) ==
    IF runs = <<>> THEN "" ELSE Head(runs) \o plainText(Tail(runs))

MinTitleLen == 5

\* !titleText || titleText.length < 5 || titleText.toLowerCase().includes('untitled')
hasMinimalTitle(page) ==
    LET titleText == trim(plainText(page.Title))
    IN  \/ titleText = ""
        \/ Len(titleText) < MinTitleLen
        \/ includes(toLowerCase(titleText), "untitled")

isQuickTodoAnyStatus(page) ==
    hasMinimalTitle(page) /\ (page.Project = None \/ page.Priority = None)

\* isQuickTodo: hasMinimalTitle && hasMissingFields && isNewTask
isQuickTodo(page) ==
    LET hasMissingFields == page.Project = None \/ page.Priority = None
        isNewTask == page.Status = None \/ page.Status = Some("Backlog")
    IN  hasMinimalTitle(page) /\ hasMissingFields /\ isNewTask

\* The filter of the query of processQuickTodos: Status is empty or Backlog
quickQueryFilter(page) == page.Status = None \/ page.Status = Some("Backlog")

NoUpdates == [ f \in {} |-> None ]

\* The updates the task channel makes to the record from the first parsed
\* task, each under its condition
taskUpdates(page, firstTask) ==
    (IF hasMinimalTitle(page)
     THEN [ Title |-> <<firstTask.title>> ] ELSE NoUpdates)
    @@ (IF page.Project = None /\ firstTask.project # None
        THEN [ Project |-> firstTask.project ] ELSE NoUpdates)
    @@ (IF page.Priority = None
        THEN [ Priority |-> Some(firstTask.priority) ] ELSE NoUpdates)
    @@ (IF page.Due = None /\ firstTask.due # None
        THEN [ Due |-> firstTask.due ] ELSE NoUpdates)
    @@ (IF page.Status = None
        THEN [ Status |-> Some("Backlog") ] ELSE NoUpdates)

QuickTitles ==
    { <<>>, <<"  ">>, <<"abc">>, <<" ab", "cd ">>, <<"abcde">>, <<"ab", "cde">>,
      <<"Untitled">>, <<"my UNTITLED x">>, <<"Call Bob">> }
QuickStatuses == { None, Some("Backlog"), Some("Next"), Some("Doing"), Some("Done") }

QuickPages ==
    [ Title : QuickTitles,
      Project : { None, Some("P") },
      Priority : { None, Some("High") },
      Due : { None, Some("d1") },
      Status : QuickStatuses ]

\* The text under the Task heading and under the Project Info heading, as
\* extractSectionContent gives them: absent, too short to be processed, or
\* long enough
MinTaskLen == 3
MinInfoLen == 5
TaskTexts == { "", "abc", "do it" }
InfoTexts == { "", "k: v1", "key: v" }

\* The first task parseQuickTodo gives
FirstTasks ==
    { [ title |-> "Parsed", project |-> None, priority |-> "Medium", due |-> None ],
      [ title |-> "Parsed", project |-> Some("Q"), priority |-> "Medium",
        due |-> Some("d2") ] }

\* The tasks parseQuickTodo gives after the first
MaxSiblings == 2
MoreTask(k) ==
    IF k % 2 = 1
    THEN [ title |-> "More A", project |-> Some("Q"), priority |-> "High",
           due |-> Some("d3") ]
    ELSE [ title |-> "More B", project |-> None, priority |-> "Low", due |-> None ]
MoreTasks == { [ k \in 1..n |-> MoreTask(k) ] : n \in 0..MaxSiblings }

\* What parsed.tasks || [] can be: no task (the service failed and the
\* object returned has no tasks, or the tasks it gave are an empty array),
\* or a first task and up to MaxSiblings more
ParsedTasks ==
    { <<>> } \cup
    { <<first>> \o more : first \in FirstTasks,
                          more \in MoreTasks }

\* The properties of the page created for a task after the first
siblingProperties(task) ==
    [ Title |-> <<task.title>>,
      Status |-> Some("Backlog"),
      Priority |-> Some(task.priority),
      Due |-> task.due,
      Project |-> task.project ]

\* projectInfoContent.split('\n').map(line => line.replace(/^[-<bullet>]\s*/, '').trim())
\*   .filter(line => line.length > 0)
RECURSIVE cleanedLines(_)
cleanedLines(lines) ==
    IF lines = <<>> THEN <<>>
    ELSE LET line == trim(stripLeadingDash(Head(lines)))
         IN  (IF line = "" THEN <<>> ELSE <<line>>) \o cleanedLines(Tail(lines))
quickBullets(projectInfoContent) == cleanedLines(splitLines(projectInfoContent))

MaxQuickFailures == 1
MaxCycles == 2

\* What processQuickTodo returns: null, or the three flags
NullResult ==
    [ null |-> TRUE, taskCreated |-> FALSE, projectInfoRouted |-> FALSE,
      pageDeleted |-> FALSE ]
ResultOf(taskCreated, projectInfoRouted, pageDeleted) ==
    [ null |-> FALSE, taskCreated |-> taskCreated,
      projectInfoRouted |-> projectInfoRouted, pageDeleted |-> pageDeleted ]

\* The locals of one processQuickTodo
NoRun ==
    [ taskContent |-> "", projectInfoContent |-> "", tasks |-> <<>>, i |-> 0,
      taskSuccess |-> FALSE, projectInfoSuccess |-> FALSE ]

QuickInit ==
    /\ quickPage \in QuickPages
    /\ quickSections \in [ task : TaskTexts, info : InfoTexts ]
    /\ quickArchived = FALSE
    /\ quickPc = "filter"
    /\ quickSelected = None
    /\ quickSeen = None
    /\ quickUpdates = None
    /\ quickRun = NoRun
    /\ quickLog = <<>>
    /\ quickResult = None
    /\ quickFailures = 0
    /\ quickCycle = 1
    /\ quickTerminal = FALSE

QuickCallFails ==
    quickFailures < MaxQuickFailures /\ quickFailures' = quickFailures + 1

\* processQuickTodos: the query and the filter by isQuickTodo, with what
\* each of the two says of the record; a record both accept is processed,
\* as the query returned it.  The query does not return an archived record.
QuickSelect ==
    /\ quickPc = "filter"
    /\ LET returned == quickQueryFilter(quickPage) /\ ~quickArchived
           quick == isQuickTodo(quickPage)
       IN  /\ quickSelected' = Some([ returned |-> returned, quick |-> quick ])
           /\ quickSeen' = Some(quickPage)
           /\ quickPc' = IF returned /\ quick THEN "fetch" ELSE "end"
    /\ UNCHANGED <<quickPage, quickSections, quickArchived, quickUpdates,
                   quickRun, quickLog, quickResult, quickFailures, quickCycle,
                   quickTerminal, notQuick>>

\* processQuickTodo: getAllBlocksRecursive and the two extractSectionContent;
\* null when both are empty, and from the outer catch when the fetch fails
QuickFetch ==
    /\ quickPc = "fetch"
    /\ \/ /\ quickRun' = [quickRun EXCEPT !.taskContent = quickSections.task,
                                          !.projectInfoContent = quickSections.info]
          /\ IF quickSections.task = "" /\ quickSections.info = ""
             THEN quickResult' = Some(NullResult) /\ quickPc' = "end"
             ELSE quickResult' = quickResult /\ quickPc' = "task"
          /\ UNCHANGED quickFailures
       \/ /\ QuickCallFails
          /\ quickResult' = Some(NullResult)
          /\ quickPc' = "end"
          /\ UNCHANGED quickRun
    /\ UNCHANGED <<quickPage, quickSections, quickArchived, quickSelected,
                   quickSeen, quickUpdates, quickLog, quickCycle, quickTerminal,
                   notQuick>>

\* After the update of the record: on to the other tasks when there are
\* any, taskSuccess = true otherwise
afterFirstTask(parsed) ==
    IF Len(parsed) > 1
    THEN /\ quickRun' = [quickRun EXCEPT !.tasks = parsed]
         /\ quickPc' = "config"
    ELSE /\ quickRun' = [quickRun EXCEPT !.tasks = parsed, !.taskSuccess = TRUE]
         /\ quickPc' = "info"

\* processQuickTodo, the task channel up to the update of the record: the
\* tasks parsed, null when there is none, the updates of the first task,
\* written with updatePage when there are any; the write may fail, and the
\* catch of the task channel then leaves taskSuccess false
QuickTaskChannel ==
    /\ quickPc = "task"
    /\ IF quickRun.taskContent # "" /\ Len(quickRun.taskContent) > MinTaskLen
       THEN \E parsed \in ParsedTasks :
              IF parsed = <<>>
              THEN /\ quickResult' = Some(NullResult)
                   /\ quickPc' = "end"
                   /\ UNCHANGED <<quickPage, quickUpdates, quickRun, quickLog,
                                  quickFailures>>
              ELSE LET updates == taskUpdates(quickSeen[1], parsed[1])
                   IN  /\ UNCHANGED quickResult
                       /\ IF DOMAIN updates = {}
                          THEN /\ quickUpdates' = Some(updates)
                               /\ afterFirstTask(parsed)
                               /\ UNCHANGED <<quickPage, quickLog, quickFailures>>
                          ELSE \/ /\ quickPage' = updatePage(quickPage, updates)
                                  /\ quickUpdates' = Some(updates)
                                  /\ quickLog' = Append(quickLog,
                                        [ op |-> "update", ok |-> TRUE ])
                                  /\ afterFirstTask(parsed)
                                  /\ UNCHANGED quickFailures
                               \/ /\ QuickCallFails
                                  /\ quickLog' = Append(quickLog,
                                        [ op |-> "update", ok |-> FALSE ])
                                  /\ quickRun' = [quickRun EXCEPT !.tasks = parsed]
                                  /\ quickPc' = "info"
                                  /\ UNCHANGED <<quickPage, quickUpdates>>
       ELSE /\ quickPc' = "info"
            /\ UNCHANGED <<quickPage, quickUpdates, quickRun, quickLog,
                           quickResult, quickFailures>>
    /\ UNCHANGED <<quickSections, quickArchived, quickSelected, quickSeen,
                   quickCycle, quickTerminal, notQuick>>

\* tasks.length > 1: the configuration file is read for the id of the task
\* collection; the read may fail, and the catch of the task channel then
\* leaves taskSuccess false
QuickConfig ==
    /\ quickPc = "config"
    /\ \/ /\ quickRun' = [quickRun EXCEPT !.i = 1]
          /\ quickPc' = "create"
          /\ UNCHANGED quickFailures
       \/ /\ QuickCallFails
          /\ quickPc' = "info"
          /\ UNCHANGED quickRun
    /\ UNCHANGED <<quickPage, quickSections, quickArchived, quickSelected,
                   quickSeen, quickUpdates, quickLog, quickResult, quickCycle,
                   quickTerminal, notQuick>>

\* Whether the loop over tasks[1..] ends after the creation of tasks[i]:
\* a failed creation is caught inside the loop
createLoopEnds(ok, i, n) == i + 1 >= n

\* One createPage of the loop, for tasks[i]; taskSuccess = true after the
\* last
QuickCreate ==
    /\ quickPc = "create"
    /\ LET i == quickRun.i
           task == At(quickRun.tasks, i)
       IN  \E ok \in BOOLEAN :
             /\ IF ok THEN UNCHANGED quickFailures ELSE QuickCallFails
             /\ quickLog' = Append(quickLog,
                   [ op |-> "create", ok |-> ok, item |-> i,
                     properties |-> siblingProperties(task) ])
             /\ IF createLoopEnds(ok, i, Len(quickRun.tasks))
                THEN /\ quickRun' = [quickRun EXCEPT !.i = i + 1,
                                                     !.taskSuccess = TRUE]
                     /\ quickPc' = "info"
                ELSE /\ quickRun' = [quickRun EXCEPT !.i = i + 1]
                     /\ quickPc' = "create"
    /\ UNCHANGED <<quickPage, quickSections, quickArchived, quickSelected,
                   quickSeen, quickUpdates, quickResult, quickCycle,
                   quickTerminal, notQuick>>

\* processQuickTodo, the info channel: the bullets are classified and
\* handed to updateProjectPage, whose result is projectInfoSuccess
QuickInfoChannel ==
    /\ quickPc = "info"
    /\ IF /\ quickRun.projectInfoContent # ""
          /\ Len(quickRun.projectInfoContent) > MinInfoLen
          /\ quickBullets(quickRun.projectInfoContent) # <<>>
       THEN \E updated \in BOOLEAN :
              /\ quickRun' = [quickRun EXCEPT !.projectInfoSuccess = updated]
              /\ quickLog' = Append(quickLog, [ op |-> "route", ok |-> updated ])
       ELSE UNCHANGED <<quickRun, quickLog>>
    /\ quickPc' = "cleanup"
    /\ UNCHANGED <<quickPage, quickSections, quickArchived, quickSelected,
                   quickSeen, quickUpdates, quickResult, quickFailures,
                   quickCycle, quickTerminal, notQuick>>

\* deleteSection of the Project Info section: the section is gone, or, when
\* a call of deleteSection fails, it is still there
QuickDeleteSection ==
    /\ \/ /\ quickSections' = [quickSections EXCEPT !.info = ""]
          /\ quickLog' = Append(quickLog, [ op |-> "deleteSection", ok |-> TRUE ])
          /\ UNCHANGED quickFailures
       \/ /\ QuickCallFails
          /\ quickLog' = Append(quickLog, [ op |-> "deleteSection", ok |-> FALSE ])
          /\ UNCHANGED quickSections
    /\ UNCHANGED quickArchived

archiveWhenInfoSucceeded(run) == run.projectInfoContent # "" /\ run.projectInfoSuccess

\* Scenario B: !taskContent && projectInfoContent && projectInfoSuccess
scenarioB(run) ==
    run.taskContent = "" /\ run.projectInfoContent # "" /\ run.projectInfoSuccess

deleteWhenTaskSucceeded(run) == run.taskContent # "" /\ run.taskSuccess

\* Scenario A: both sections filled and both succeeded; scenario C: only
\* the Task section filled, and it succeeded
scenarioAorC(run) ==
    \/ /\ run.taskContent # "" /\ run.projectInfoContent # ""
       /\ run.taskSuccess /\ run.projectInfoSuccess
    \/ run.taskContent # "" /\ run.projectInfoContent = "" /\ run.taskSuccess

\* processQuickTodo, the cleanup and the result
QuickCleanup ==
    /\ quickPc = "cleanup"
    /\ quickPc' = "end"
    /\ IF quickRun.taskSuccess \/ quickRun.projectInfoSuccess
       THEN IF scenarioAorC(quickRun)
            THEN /\ QuickDeleteSection
                 /\ quickResult' = Some(ResultOf(TRUE, quickRun.projectInfoSuccess, FALSE))
            ELSE IF scenarioB(quickRun)
            THEN \/ /\ quickArchived' = TRUE
                    /\ quickLog' = Append(quickLog, [ op |-> "archive", ok |-> TRUE ])
                    /\ quickResult' = Some(ResultOf(FALSE, TRUE, TRUE))
                    /\ UNCHANGED <<quickSections, quickFailures>>
                 \/ /\ QuickCallFails
                    /\ quickLog' = Append(quickLog, [ op |-> "archive", ok |-> FALSE ])
                    /\ quickResult' = Some(ResultOf(FALSE, TRUE, FALSE))
                    /\ UNCHANGED <<quickSections, quickArchived>>
            ELSE /\ quickResult' = Some(ResultOf(quickRun.taskSuccess,
                                                 quickRun.projectInfoSuccess, FALSE))
                 /\ UNCHANGED <<quickSections, quickArchived, quickLog, quickFailures>>
       ELSE /\ quickResult' = Some(NullResult)
            /\ UNCHANGED <<quickSections, quickArchived, quickLog, quickFailures>>
    /\ UNCHANGED <<quickPage, quickSelected, quickSeen, quickUpdates, quickRun,
                   quickCycle, quickTerminal, notQuick>>

\* The next poll cycle; what the last one returned for the record is kept
QuickAgain ==
    /\ quickPc = "end"
    /\ quickCycle < MaxCycles
    /\ quickCycle' = quickCycle + 1
    /\ quickTerminal' = (quickTerminal \/ (quickResult # None /\ ~quickResult[1].null))
    /\ quickPc' = "filter"
    /\ quickSelected' = None
    /\ quickSeen' = None
    /\ quickUpdates' = None
    /\ quickRun' = NoRun
    /\ quickLog' = <<>>
    /\ quickResult' = None
    /\ UNCHANGED <<quickPage, quickSections, quickArchived, quickFailures, notQuick>>

QuickIdle ==
    /\ quickPage = None /\ quickSections = None /\ quickArchived = FALSE
    /\ quickPc = "off" /\ quickSelected = None /\ quickSeen = None
    /\ quickUpdates = None /\ quickRun = None /\ quickLog = <<>>
    /\ quickResult = None /\ quickFailures = 0 /\ quickCycle = 0
    /\ quickTerminal = FALSE

----------------------------------------------------------------------------
(* The engine under startPolling (automation.js): the invocations of       *)
(* pollMeetings, one action per remote call or file read, so that the      *)
(* steps of two invocations interleave where the code awaits.  A meeting   *)
(* has the check items EngTodos, taken by their index; no user edits a     *)
(* page, a user may add a meeting.                                         *)

MaxPolls == 3
MaxEngFailures == 1

EngMeetingIds == <<"m1", "m2">>
EngQuickIds == <<"q1", "q2">>
EngTodos == <<"t1">>

\* The line key of a check item of a meeting
engLineKey(meeting, i) == <<meeting, EngTodos[i]>>

\* The elements of a sequence of ids that are in a set, in their order
RECURSIVE engFilter(_, _)
engFilter(ids, S) ==
    IF ids = <<>> THEN <<>>
    ELSE (IF Head(ids) \in S THEN <<Head(ids)>> ELSE <<>>) \o engFilter(Tail(ids), S)

\* One invocation of pollMeetings as it starts: at loadConfig
NewPoll ==
    [ pc |-> "config", queried |-> FALSE, selected |-> <<>>, queue |-> <<>>,
      i |-> 0, quickRan |-> FALSE, quickQueried |-> FALSE, qselected |-> <<>>,
      qqueue |-> <<>>,
      entered |-> <<>>, caught |-> {} ]

EngInit ==
    /\ engPolls = <<NewPoll>>
    /\ engArmed = FALSE
    /\ engPresent = {"m1"}
    /\ engProcessed = {}
    /\ engTasks = EmptyBag
    /\ engQuickOpen = {"q1", "q2"}
    /\ engFailures = 0

EngCallFails == engFailures < MaxEngFailures /\ engFailures' = engFailures + 1

EngSet(c, poll) == engPolls' = [engPolls EXCEPT ![c] = poll]

\* pollMeetings: loadConfig; a failure ends the invocation in its catch
PollConfig(c) ==
    /\ engPolls[c].pc = "config"
    /\ \/ /\ EngSet(c, [engPolls[c] EXCEPT !.pc = "query"])
          /\ UNCHANGED engFailures
       \/ /\ EngCallFails
          /\ EngSet(c, [engPolls[c] EXCEPT !.pc = "done"])
    /\ UNCHANGED <<engArmed, engPresent, engProcessed, engTasks, engQuickOpen, notEng>>

\* pollMeetings: the query and the filter by shouldProcessMeeting; a
\* failure of the query ends the invocation in its catch
PollQuery(c) ==
    /\ engPolls[c].pc = "query"
    /\ \/ LET toProcess == engFilter(EngMeetingIds, engPresent \ engProcessed)
          IN  /\ EngSet(c, [engPolls[c] EXCEPT
                              !.queried = TRUE,
                              !.selected = toProcess,
                              !.queue = toProcess,
                              !.pc = IF toProcess = <<>>
                                     THEN "quickQuery" ELSE "fetch"])
              /\ UNCHANGED engFailures
       \/ /\ EngCallFails
          /\ EngSet(c, [engPolls[c] EXCEPT !.pc = "done"])
    /\ UNCHANGED <<engArmed, engPresent, engProcessed, engTasks, engQuickOpen, notEng>>

\* processMeeting has returned: the next meeting of the loop, or
\* processQuickTodos after the last
nextMeeting(poll) ==
    [poll EXCEPT !.queue = Tail(poll.queue), !.i = 0,
                 !.pc = IF Tail(poll.queue) = <<>> THEN "quickQuery" ELSE "fetch"]

abortsPoll(poll) == [poll EXCEPT !.caught = @ \cup {Head(poll.queue)}, !.pc = "done"]

\* The catch of processMeeting: the error is logged, the meeting is over
caughtInMeeting(poll) ==
    nextMeeting([poll EXCEPT !.caught = @ \cup {Head(poll.queue)}])

\* processMeeting: getAllBlocksRecursive
PollFetch(c) ==
    /\ engPolls[c].pc = "fetch"
    /\ LET poll == [engPolls[c] EXCEPT !.entered = Append(@, Head(engPolls[c].queue))]
       IN  \/ /\ EngSet(c, [poll EXCEPT !.i = 1, !.pc = "check"])
              /\ UNCHANGED engFailures
           \/ /\ EngCallFails
              /\ EngSet(c, caughtInMeeting(poll))
    /\ UNCHANGED <<engArmed, engPresent, engProcessed, engTasks, engQuickOpen, notEng>>

\* The loop over the check items goes on to the next, or ends
nextTodo(poll) ==
    IF poll.i + 1 <= Len(EngTodos)
    THEN [poll EXCEPT !.i = @ + 1, !.pc = "check"]
    ELSE [poll EXCEPT !.pc = "info"]

\* processMeeting: taskExists for the key of the check item
PollCheck(c) ==
    /\ engPolls[c].pc = "check"
    /\ LET poll == engPolls[c]
           lineKey == engLineKey(Head(poll.queue), poll.i)
       IN  \/ /\ IF BagIn(lineKey, engTasks)
                 THEN EngSet(c, nextTodo(poll))
                 ELSE EngSet(c, [poll EXCEPT !.pc = "create"])
              /\ UNCHANGED engFailures
           \/ /\ EngCallFails
              /\ EngSet(c, caughtInMeeting(poll))
    /\ UNCHANGED <<engArmed, engPresent, engProcessed, engTasks, engQuickOpen, notEng>>

\* processMeeting: createPage for the check item; a failure is caught
\* inside the loop
PollCreate(c) ==
    /\ engPolls[c].pc = "create"
    /\ LET poll == engPolls[c]
           lineKey == engLineKey(Head(poll.queue), poll.i)
       IN  /\ EngSet(c, nextTodo(poll))
           /\ \/ /\ engTasks' = engTasks (+) SetToBag({lineKey})
                 /\ UNCHANGED engFailures
              \/ /\ EngCallFails
                 /\ UNCHANGED engTasks
    /\ UNCHANGED <<engArmed, engPresent, engProcessed, engQuickOpen, notEng>>

\* processMeeting: hasProjectInfo, which fetches the page again and gives
\* false when the fetch fails; these meetings have no Project Info section
PollInfo(c) ==
    /\ engPolls[c].pc = "info"
    /\ EngSet(c, [engPolls[c] EXCEPT !.pc = "mark"])
    /\ UNCHANGED <<engArmed, engPresent, engProcessed, engTasks, engQuickOpen,
                   engFailures, notEng>>

\* processMeeting: updatePage with Processed and Last Processed
PollMark(c) ==
    /\ engPolls[c].pc = "mark"
    /\ LET poll == engPolls[c]
       IN  \/ /\ engProcessed' = engProcessed \cup {Head(poll.queue)}
              /\ EngSet(c, nextMeeting(poll))
              /\ UNCHANGED engFailures
           \/ /\ EngCallFails
              /\ EngSet(c, caughtInMeeting(poll))
              /\ UNCHANGED engProcessed
    /\ UNCHANGED <<engArmed, engPresent, engTasks, engQuickOpen, notEng>>

\* processQuickTodos: the query and the filter by isQuickTodo; a failure
\* is caught in processQuickTodos
PollQuickQuery(c) ==
    /\ engPolls[c].pc = "quickQuery"
    /\ LET poll == [engPolls[c] EXCEPT !.quickRan = TRUE]
       IN  \/ LET quickTodos == engFilter(EngQuickIds, engQuickOpen)
              IN  /\ EngSet(c, [poll EXCEPT
                                  !.quickQueried = TRUE,
                                  !.qselected = quickTodos,
                                  !.qqueue = quickTodos,
                                  !.pc = IF quickTodos = <<>> THEN "done" ELSE "quick"])
                  /\ UNCHANGED engFailures
           \/ /\ EngCallFails
              /\ EngSet(c, [poll EXCEPT !.pc = "done"])
    /\ UNCHANGED <<engArmed, engPresent, engProcessed, engTasks, engQuickOpen, notEng>>

\* The next record of the loop of processQuickTodos
nextQuick(poll) ==
    [poll EXCEPT !.qqueue = Tail(poll.qqueue),
                 !.pc = IF Tail(poll.qqueue) = <<>> THEN "done" ELSE "quick"]

\* The catch of processQuickTodo: the error is logged, null is returned
caughtInQuick(poll) ==
    nextQuick([poll EXCEPT !.caught = @ \cup {Head(poll.qqueue)}])

\* processQuickTodos: processQuickTodo for the record, to its result; with
\* a result the record is no quick entry any more
PollQuick(c) ==
    /\ engPolls[c].pc = "quick"
    /\ LET poll == [engPolls[c] EXCEPT !.entered = Append(@, Head(engPolls[c].qqueue))]
       IN  \/ /\ engQuickOpen' = engQuickOpen \ {Head(poll.qqueue)}
              /\ EngSet(c, nextQuick(poll))
              /\ UNCHANGED engFailures
           \/ /\ EngCallFails
              /\ EngSet(c, caughtInQuick(poll))
              /\ UNCHANGED engQuickOpen
    /\ UNCHANGED <<engArmed, engPresent, engProcessed, engTasks, notEng>>

\* The steps of the invocations of pollMeetings that have started
EngConfig == \E c \in 1..Len(engPolls) : PollConfig(c)
EngQuery == \E c \in 1..Len(engPolls) : PollQuery(c)
EngFetch == \E c \in 1..Len(engPolls) : PollFetch(c)
EngCheck == \E c \in 1..Len(engPolls) : PollCheck(c)
EngCreate == \E c \in 1..Len(engPolls) : PollCreate(c)
EngInfo == \E c \in 1..Len(engPolls) : PollInfo(c)
EngMark == \E c \in 1..Len(engPolls) : PollMark(c)
EngQuickQuery == \E c \in 1..Len(engPolls) : PollQuickQuery(c)
EngQuick == \E c \in 1..Len(engPolls) : PollQuick(c)

\* startPolling: the first pollMeetings has ended, setInterval
EngArm ==
    /\ ~engArmed
    /\ engPolls[1].pc = "done"
    /\ engArmed' = TRUE
    /\ UNCHANGED <<engPolls, engPresent, engProcessed, engTasks, engQuickOpen,
                   engFailures, notEng>>

\* The callback of setInterval: the interval has elapsed, and one more
\* pollMeetings starts, whatever the earlier invocations are doing
EngTick ==
    /\ engArmed
    /\ Len(engPolls) < MaxPolls
    /\ engPolls' = Append(engPolls, NewPoll)
    /\ UNCHANGED <<engArmed, engPresent, engProcessed, engTasks, engQuickOpen,
                   engFailures, notEng>>

\* A user adds a meeting page to the Meetings database
EngNewMeeting ==
    /\ "m2" \notin engPresent
    /\ engPresent' = engPresent \cup {"m2"}
    /\ UNCHANGED <<engPolls, engArmed, engProcessed, engTasks, engQuickOpen,
                   engFailures, notEng>>

EngIdle ==
    /\ engPolls = <<>> /\ engArmed = FALSE /\ engPresent = {}
    /\ engProcessed = {} /\ engTasks = EmptyBag /\ engQuickOpen = {}
    /\ engFailures = 0

----------------------------------------------------------------------------
(* The classification of project information (openai_client.js):           *)
(* categorizeProjectInfo, one action per request to the classification     *)
(* service and one for what the function does with the answer.  The        *)
(* content of an answer is a text that JSON.parse rejects, or the value it *)
(* parses to.                                                              *)

BundleKeys == {"credentials", "contacts", "links", "decisions", "other"}

\* A value under a key of a parsed object: no such key, null, a string, or
\* a list of strings; v holds the string or the items
Absent == [t |-> "absent", v |-> <<>>]
JNull == [t |-> "null", v |-> <<>>]
JString(s) == [t |-> "string", v |-> <<s>>]
JArray(items) == [t |-> "array", v |-> items]

\* A parsed value: null, a string, a list, or an object with its keys
NoFields == [k \in BundleKeys |-> Absent]
JValue(t, fields) == [t |-> t, fields |-> fields]
JObject(fields) == JValue("object", fields)

\* The values the service puts under a key
FieldValues ==
    {Absent, JNull, JString("k1"), JArray(<<>>), JArray(<<"K1: v">>)}

\* The answers of the service: an error raised by the request, a response
\* without choices, a content that is no JSON text, or a JSON text
CatErrors ==
    { [status |-> 429, code |-> ""], [status |-> 0, code |-> "ETIMEDOUT"],
      [status |-> 500, code |-> ""], [status |-> 0, code |-> "ECONNRESET"] }
SyntaxError == [status |-> 0, code |-> ""]
TypeError == [status |-> 0, code |-> ""]
NoError == [status |-> 0, code |-> "none"]
CatReply(kind, error, value) == [kind |-> kind, error |-> error, value |-> value]
CatValues ==
    { JValue("null", NoFields), JValue("string", NoFields),
      JValue("array", NoFields) }
    \cup { JObject([k \in BundleKeys |->
                      IF k = "credentials" THEN a
                      ELSE IF k = "other" THEN b ELSE c]) :
             a \in FieldValues, b \in FieldValues, c \in FieldValues }
CatReplies ==
    { CatReply("error", e, JValue("null", NoFields)) : e \in CatErrors }
    \cup { CatReply("noChoices", NoError, JValue("null", NoFields)),
           CatReply("text", NoError, JValue("null", NoFields)) }
    \cup { CatReply("json", NoError, value) : value \in CatValues }
NoReply == CatReply("none", NoError, JValue("null", NoFields))

CatInputs == { <<>>, <<"k1 is v">>, <<"k1 is v", "see x.io">> }
MaxCatRequests == 3

\* value || []
orEmpty(value) ==
    IF \/ value.t = "array"
       \/ value.t = "string" /\ value.v # <<"">>
    THEN value
    ELSE JArray(<<>>)

\* The return of the try block: every category of the result, or a list
categorized(result) == [k \in BundleKeys |-> orEmpty(result.fields[k])]

\* The return of the catch block: all items as "other"
fallbackBundle(bullets) ==
    [k \in BundleKeys |-> IF k = "other" THEN JArray(bullets) ELSE JArray(<<>>)]

emptyBundle == [k \in BundleKeys |-> JArray(<<>>)]

\* What the try block throws on an answer, if it throws: the error of the
\* request, the TypeError of choices[0] of a response without choices, the
\* SyntaxError of JSON.parse, the TypeError of result.credentials of null
thrownBy(reply) ==
    IF reply.kind = "error" THEN Some(reply.error)
    ELSE IF reply.kind = "noChoices" THEN Some(TypeError)
    ELSE IF reply.kind = "text" THEN Some(SyntaxError)
    ELSE IF reply.value.t = "null" THEN Some(TypeError)
    ELSE None

\* error.status === 429 || error.code === 'ETIMEDOUT'
catRetries(error) == error.status = 429 \/ error.code = "ETIMEDOUT"

CatInit ==
    /\ catBullets \in CatInputs
    /\ catPc = "start"
    /\ catRequests = 0
    /\ catReply = NoReply
    /\ catOut = None

\* categorizeProjectInfo: the test of the bullets
CatStart ==
    /\ catPc = "start"
    /\ IF catBullets = <<>>
       THEN catOut' = Some(emptyBundle) /\ catPc' = "done"
       ELSE catPc' = "request" /\ UNCHANGED catOut
    /\ UNCHANGED <<catBullets, catRequests, catReply, notCat>>

\* categorizeProjectInfo: the request and the answer of the service
CatRequest ==
    /\ catPc = "request"
    /\ catRequests < MaxCatRequests
    /\ \E reply \in CatReplies : catReply' = reply
    /\ catRequests' = catRequests + 1
    /\ catPc' = "answer"
    /\ UNCHANGED <<catBullets, catOut, notCat>>

\* categorizeProjectInfo: the rest of the try block, when nothing throws
CatReturn ==
    /\ catPc = "answer"
    /\ thrownBy(catReply) = None
    /\ catOut' = Some(categorized(catReply.value))
    /\ catPc' = "done"
    /\ UNCHANGED <<catBullets, catRequests, catReply, notCat>>

\* categorizeProjectInfo: the catch block
CatCatch ==
    /\ catPc = "answer"
    /\ thrownBy(catReply) # None
    /\ IF catRetries(thrownBy(catReply)[1])
       THEN catPc' = "request" /\ UNCHANGED catOut
       ELSE catOut' = Some(fallbackBundle(catBullets)) /\ catPc' = "done"
    /\ UNCHANGED <<catBullets, catRequests, catReply, notCat>>

CatIdle ==
    /\ catBullets = <<>> /\ catPc = "off" /\ catRequests = 0
    /\ catReply = NoReply /\ catOut = None

----------------------------------------------------------------------------
(* The parsing of a quick entry (openai_client.js): parseQuickTodo, one    *)
(* action per request to the classification service and one for what the   *)
(* function does with the answer.  A parsed object has a value under       *)
(* "tasks" and the properties of a single task.                            *)

ItemKeys == {"title", "project", "priority", "due", "context"}

\* The properties of a task in an answer: a string, or none (no such key,
\* or null)
ItemBare == [k \in ItemKeys |-> None]
ItemFull ==
    [k \in ItemKeys |->
        IF k = "title" THEN Some("Send it")
        ELSE IF k = "project" THEN Some("Docebo")
        ELSE IF k = "priority" THEN Some("High")
        ELSE IF k = "due" THEN Some("d1")
        ELSE Some("c1")]
ItemBlankTitle == [ItemFull EXCEPT !["title"] = Some("")]

\* An element of the list under "tasks": an object, or null
JItem(t, props) == [t |-> t, props |-> props]
ParseItems ==
    { JItem("object", ItemBare), JItem("object", ItemFull),
      JItem("object", ItemBlankTitle), JItem("null", ItemBare) }

\* The value under "tasks": no such key, null, a string, or a list
JTasks(t, items) == [t |-> t, items |-> items]
MaxParsedTasks == 2
ParseTasks ==
    { JTasks("absent", <<>>), JTasks("null", <<>>), JTasks("string", <<>>) }
    \cup { JTasks("array", items) :
             items \in UNION { [1..n -> ParseItems] : n \in 0..MaxParsedTasks } }

\* A parsed value: null, a list, or an object
PValue(t, parsed, props) == [t |-> t, tasks |-> parsed, props |-> props]
ParseValues ==
    { PValue("null", JTasks("absent", <<>>), ItemBare),
      PValue("array", JTasks("absent", <<>>), ItemBare) }
    \cup { PValue("object", parsed, props) :
             parsed \in ParseTasks, props \in {ItemBare, ItemFull} }
ParseReplies ==
    { CatReply("error", e, PValue("null", JTasks("absent", <<>>), ItemBare)) :
        e \in CatErrors }
    \cup { CatReply("noChoices", NoError,
                    PValue("null", JTasks("absent", <<>>), ItemBare)),
           CatReply("text", NoError,
                    PValue("null", JTasks("absent", <<>>), ItemBare)) }
    \cup { CatReply("json", NoError, value) : value \in ParseValues }
NoParseReply ==
    CatReply("none", NoError, PValue("null", JTasks("absent", <<>>), ItemBare))

ParseTexts == {"", "  ", "do it"}
MaxParseRequests == 3

\* value || fallback, for a string
orElse(value, fallback) ==
    IF value # None /\ value[1] # "" THEN value[1] ELSE fallback

\* value || null
orNull(value) == IF value # None /\ value[1] # "" THEN value ELSE None

\* The task made of the properties of an answer
taskOf(props, todoText) ==
    [ title |-> orElse(props["title"], todoText),
      project |-> orNull(props["project"]),
      priority |-> orElse(props["priority"], "Medium"),
      due |-> orNull(props["due"]),
      context |-> orNull(props["context"]) ]

\* What parseQuickTodo returns: an object with a tasks list, or an object
\* with the properties of one task and no tasks
WithTasks(list) == [tasks |-> Some(list), single |-> None]
flatTask(todoText) ==
    [tasks |-> None, single |-> Some(taskOf(ItemBare, todoText))]

oneTask(todoText) == WithTasks(<<taskOf(ItemBare, todoText)>>)

\* The return of the catch block: the basic parsed todo
basicTodo(todoText) == flatTask(todoText)

\* The return of the try block
parsedTodo(result, todoText) ==
    IF result.tasks.t = "array"
    THEN WithTasks([n \in 1..Len(result.tasks.items) |->
                      taskOf(result.tasks.items[n].props, todoText)])
    ELSE WithTasks(<<taskOf(result.props, todoText)>>)

\* What the try block throws on an answer, if it throws: the error of the
\* request, the TypeError of choices[0], the SyntaxError of JSON.parse, the
\* TypeError of result.tasks of null or of task.title of a null element
parseThrownBy(reply) ==
    IF reply.kind = "error" THEN Some(reply.error)
    ELSE IF reply.kind = "noChoices" THEN Some(TypeError)
    ELSE IF reply.kind = "text" THEN Some(SyntaxError)
    ELSE IF reply.value.t = "null" THEN Some(TypeError)
    ELSE IF /\ reply.value.tasks.t = "array"
            /\ \E n \in 1..Len(reply.value.tasks.items) :
                  reply.value.tasks.items[n].t = "null"
         THEN Some(TypeError)
    ELSE None

\* parsed.tasks || [] of processQuickTodo
tasksOf(parsed) == IF parsed.tasks = None THEN <<>> ELSE parsed.tasks[1]

NotReturned == [tasks |-> None, single |-> None]

ParseInit ==
    /\ parseText \in ParseTexts
    /\ parsePc = "start"
    /\ parseRequests = 0
    /\ parseReply = NoParseReply
    /\ parseOut = NotReturned

\* parseQuickTodo: the test of the text; a blank text raises an error
ParseStart ==
    /\ parsePc = "start"
    /\ parsePc' = IF trim(parseText) = "" THEN "thrown" ELSE "request"
    /\ UNCHANGED <<parseText, parseRequests, parseReply, parseOut, notParse>>

\* parseQuickTodo: the request and the answer of the service
ParseRequest ==
    /\ parsePc = "request"
    /\ parseRequests < MaxParseRequests
    /\ \E reply \in ParseReplies : parseReply' = reply
    /\ parseRequests' = parseRequests + 1
    /\ parsePc' = "answer"
    /\ UNCHANGED <<parseText, parseOut, notParse>>

\* parseQuickTodo: the rest of the try block, when nothing throws
ParseReturn ==
    /\ parsePc = "answer"
    /\ parseThrownBy(parseReply) = None
    /\ parseOut' = parsedTodo(parseReply.value, parseText)
    /\ parsePc' = "done"
    /\ UNCHANGED <<parseText, parseRequests, parseReply, notParse>>

\* parseQuickTodo: the catch block
ParseCatch ==
    /\ parsePc = "answer"
    /\ parseThrownBy(parseReply) # None
    /\ IF catRetries(parseThrownBy(parseReply)[1])
       THEN parsePc' = "request" /\ UNCHANGED parseOut
       ELSE parseOut' = basicTodo(parseText) /\ parsePc' = "done"
    /\ UNCHANGED <<parseText, parseRequests, parseReply, notParse>>

ParseIdle ==
    /\ parseText = "" /\ parsePc = "off" /\ parseRequests = 0
    /\ parseReply = NoParseReply /\ parseOut = NotReturned

----------------------------------------------------------------------------
(* One call of appendToSection (openai_client.js) with the errors its      *)
(* remote calls may raise at every attempt: the attempts, the waits        *)
(* between them and the result.                                            *)

AppSections == {CredentialsHeading, LinksHeading, DecisionsHeading}
AppErrors == {"timeout", "rate_limited", "other"}
RetryWaitUnit == 3000

waitTimeFlat(retryCount) == RetryWaitUnit

\* (retryCount + 1) * 3000
waitTime(retryCount) == (retryCount + 1) * RetryWaitUnit

\* (error.code === 'notionhq_client_request_timeout' || error.status === 429)
\* && retryCount < 2
appRetries(error, retryCount) ==
    error \in {"timeout", "rate_limited"} /\ retryCount < MaxRetries

AppInit ==
    /\ appPage \in RoutePages
    /\ \E section \in AppSections :
          appCall = [ sectionHeading |-> section, content |-> "k1: v",
                      fallbackSection |-> Some(DecisionsHeading),
                      retryCount |-> 0 ]
    /\ appPc = "attempt"
    /\ appTrace = <<>>
    /\ appOut = None

\* appendToSection: a remote call of the attempt raises an error, the
\* listing of the nodes or the append; the catch block
AppCatch ==
    /\ appPc = "attempt"
    /\ \E error \in AppErrors :
          /\ appTrace' = Append(appTrace,
                [ kind |-> "failed", error |-> error,
                  retryCount |-> appCall.retryCount, ms |-> 0 ])
          /\ IF appRetries(error, appCall.retryCount)
             THEN appPc' = "wait" /\ UNCHANGED appOut
             ELSE appPc' = "done" /\ appOut' = Some(FALSE)
    /\ UNCHANGED <<appPage, appCall, notApp>>

\* appendToSection: the wait and the call of itself with retryCount + 1
AppRetry ==
    /\ appPc = "wait"
    /\ appTrace' = Append(appTrace,
          [ kind |-> "wait", error |-> "", retryCount |-> appCall.retryCount,
            ms |-> waitTime(appCall.retryCount) ])
    /\ appCall' = [appCall EXCEPT !.retryCount = @ + 1]
    /\ appPc' = "attempt"
    /\ UNCHANGED <<appPage, appOut, notApp>>

\* appendToSection: the section is not on the page; the call of itself
\* with the fallback section, or false
AppNotFound ==
    /\ appPc = "attempt"
    /\ findSection(appPage, appCall.sectionHeading) = -1
    /\ IF fallbackAllowed(appCall)
       THEN /\ appCall' = [appCall EXCEPT
                              !.sectionHeading = appCall.fallbackSection[1],
                              !.fallbackSection = None]
            /\ appTrace' = Append(appTrace,
                  [ kind |-> "fallback", error |-> "",
                    retryCount |-> appCall.retryCount, ms |-> 0 ])
            /\ UNCHANGED <<appPc, appOut>>
       ELSE /\ appOut' = Some(FALSE)
            /\ appPc' = "done"
            /\ UNCHANGED <<appCall, appTrace>>
    /\ UNCHANGED <<appPage, notApp>>

\* appendToSection: the append after the heading of the section
AppAppend ==
    /\ appPc = "attempt"
    /\ findSection(appPage, appCall.sectionHeading) # -1
    /\ appPage' = insertAfter(appPage,
                     findSection(appPage, appCall.sectionHeading),
                     bulletBlocks(appCall.content))
    /\ appOut' = Some(TRUE)
    /\ appPc' = "done"
    /\ UNCHANGED <<appCall, appTrace, notApp>>

AppIdle ==
    /\ appPage = <<>> /\ appCall = <<>> /\ appPc = "off"
    /\ appTrace = <<>> /\ appOut = None

----------------------------------------------------------------------------
(* The recursive fetch of the blocks of a page (notion_client.js):         *)
(* getAllBlocksRecursive over a tree of blocks.  Block 0 is the page; the   *)
(* children of a block are the blocks that name it as parent, in the order *)
(* of their numbers.  A request for the children of a block returns them   *)
(* or throws the error the store answers with; no request is made for a   *)
(* block that has no children, and its answer is left at "ok".            *)

MaxNodes == 3
BlockIds == 1..MaxNodes
BlockTypes == {"toggle", "child_page", "child_database"}
TreeAccess == {"ok", "object_not_found", "other"}

\* The children of a block, in document order
RECURSIVE childrenFrom(_, _)
childrenFrom(id, n) ==
    IF n > MaxNodes THEN <<>>
    ELSE (IF tree.parent[n] = id THEN <<n>> ELSE <<>>) \o childrenFrom(id, n + 1)
childrenOf(id) == childrenFrom(id, 1)

\* block.has_children
has_children(id) == childrenOf(id) # <<>>

descendsAlways(id) == has_children(id)

\* block.has_children && block.type !== 'child_page'
\*   && block.type !== 'child_database'
descends(id) ==
    /\ has_children(id)
    /\ tree.type[id] # "child_page"
    /\ tree.type[id] # "child_database"

\* error.code === 'object_not_found' || error.message?.includes('transcription')
skipsInaccessible(error) == error = "object_not_found"

NotWalked == [ blocks |-> <<>>, requests |-> <<>>, error |-> None ]

\* getAllBlocksRecursive(blockId): getBlocks, then every block followed by
\* what the call on it returns; the error of a call on a block is caught
\* and the block skipped, or thrown again
RECURSIVE getAllBlocksRecursive(_), collectBlocks(_, _)
collectBlocks(blocks, acc) ==
    IF blocks = <<>> THEN acc
    ELSE LET block == Head(blocks)
             pushed == [acc EXCEPT !.blocks = Append(@, block)]
         IN  IF descends(block)
             THEN LET sub == getAllBlocksRecursive(block)
                      asked == [pushed EXCEPT !.requests = @ \o sub.requests]
                  IN  IF sub.error = None
                      THEN collectBlocks(Tail(blocks),
                              [asked EXCEPT !.blocks = @ \o sub.blocks])
                      ELSE IF skipsInaccessible(sub.error[1])
                      THEN collectBlocks(Tail(blocks), asked)
                      ELSE [asked EXCEPT !.blocks = <<>>, !.error = sub.error]
             ELSE collectBlocks(Tail(blocks), pushed)
getAllBlocksRecursive(blockId) ==
    IF blockId # 0 /\ tree.access[blockId] # "ok"
    THEN [ blocks |-> <<>>, requests |-> <<blockId>>,
           error |-> Some(tree.access[blockId]) ]
    ELSE collectBlocks(childrenOf(blockId),
                       [NotWalked EXCEPT !.requests = <<blockId>>])

TreeInit ==
    /\ tree \in [ type : [BlockIds -> BlockTypes],
                  parent : { f \in [BlockIds -> 0..(MaxNodes - 1)] :
                               \A n \in BlockIds : f[n] < n },
                  access : [BlockIds -> TreeAccess] ]
    /\ \A n \in BlockIds : ~has_children(n) => tree.access[n] = "ok"
    /\ treePc = "start"
    /\ treeOut = NotWalked

\* One call of getAllBlocksRecursive on the page
TreeWalk ==
    /\ treePc = "start"
    /\ treeOut' = getAllBlocksRecursive(0)
    /\ treePc' = "done"
    /\ UNCHANGED <<tree, notTree>>

TreeIdle ==
    /\ tree = [ type |-> <<>>, parent |-> <<>>, access |-> <<>> ]
    /\ treePc = "off" /\ treeOut = NotWalked

----------------------------------------------------------------------------
(* The extraction of the bullets of a Project Info section                 *)
(* (project_info.js): extractInfoBullets on the range that                 *)
(* findProjectInfoSection gives for the blocks of a page.                  *)

MaxSectionLen == 2

\* What a user writes under the heading
SectionNodes ==
    { [type |-> "bulleted_list_item", text |-> " api key 123 "],
      [type |-> "bulleted_list_item", text |-> "  "],
      [type |-> "bulleted_list_item", text |-> "- dashed"],
      [type |-> "numbered_list_item", text |-> "step one"],
      [type |-> "paragraph", text |-> "- note"],
      [type |-> "paragraph", text |-> "@ x"],
      [type |-> "paragraph", text |-> "-"],
      [type |-> "paragraph", text |-> "--two"],
      [type |-> "paragraph", text |-> "short"],
      [type |-> "paragraph", text |-> "tencharsxx"],
      [type |-> "paragraph", text |-> "elevenchars"],
      [type |-> "paragraph", text |-> "  padded   "],
      [type |-> "to_do", text |-> "Email Karen"] }

\* What follows the section, if anything
SectionTails ==
    { <<>>,
      << [type |-> "heading_2", text |-> "Notes"],
         [type |-> "bulleted_list_item", text |-> "after"] >> }

ExInit ==
    /\ \E body \in SeqsUpTo(SectionNodes, MaxSectionLen), rest \in SectionTails :
          exBlocks = <<[type |-> "heading_2", text |-> "Project Info"]>>
                        \o body \o rest
    /\ exRange = findProjectInfoSection(exBlocks)
    /\ exPc = "start"
    /\ exOut = <<>>

\* extractAndCategorize: extractInfoBullets(blocks, startIndex, endIndex)
ExExtract ==
    /\ exPc = "start"
    /\ exRange.found
    /\ exOut' = extractInfoBullets(exBlocks, exRange.startIndex, exRange.endIndex)
    /\ exPc' = "done"
    /\ UNCHANGED <<exBlocks, exRange, notEx>>

ExIdle ==
    /\ exBlocks = <<>>
    /\ exRange = [found |-> FALSE, startIndex |-> -1, endIndex |-> -1]
    /\ exPc = "off" /\ exOut = <<>>

----------------------------------------------------------------------------
(* The deletion of a section of a quick-entry page                         *)
(* (quick_todo_processor_v2.js): deleteSection, one action for the fetch   *)
(* and the scan, one per delete request.  Any request may fail.            *)

MaxDelLen == 3

\* What a quick-entry page may hold
DelNodes ==
    { [type |-> "heading_2", text |-> InfoHeading],
      [type |-> "heading_3", text |-> TaskHeading],
      [type |-> "heading_2", text |-> "Notes"],
      [type |-> "paragraph", text |-> "key: v"] }

NotDeleted == [ returned |-> FALSE, value |-> FALSE ]
Deleted(value) == [ returned |-> TRUE, value |-> value ]

DelInit ==
    /\ delBlocks \in SeqsUpTo(DelNodes, MaxDelLen)
    /\ delHeading \in {TaskHeading, InfoHeading}
    /\ delStore = 0..(Len(delBlocks) - 1)
    /\ delPc = "fetch"
    /\ delI = 0
    /\ delTrace = <<>>
    /\ delOut = NotDeleted

deleteLoopEndsEarly(i, endIndex) == i + 1 >= endIndex

\* for (let i = sectionIndex; i < endIndex; i++)
deleteLoopEnds(i, endIndex) == i >= endIndex

\* const endIndex = nextHeadingIndex === -1 ? blocks.length : nextHeadingIndex
delEndIndex == locateSection(delBlocks, delHeading).endIndex

\* deleteSection: getAllBlocksRecursive and the scan for the heading; true
\* when the heading is not there, false from the outer catch
DelFetch ==
    /\ delPc = "fetch"
    /\ \/ LET section == locateSection(delBlocks, delHeading)
          IN  IF ~section.found
              THEN /\ delOut' = Deleted(TRUE)
                   /\ delPc' = "done"
                   /\ UNCHANGED delI
              ELSE /\ delI' = section.startIndex
                   /\ delPc' = "loop"
                   /\ UNCHANGED delOut
       \/ /\ delOut' = Deleted(FALSE)
          /\ delPc' = "done"
          /\ UNCHANGED delI
    /\ UNCHANGED <<delBlocks, delHeading, delStore, delTrace, notDel>>

\* deleteSection: one delete request of the loop; a failure is caught and
\* logged, and the loop goes on
DelDelete ==
    /\ delPc = "loop"
    /\ ~deleteLoopEnds(delI, delEndIndex)
    /\ \/ /\ delStore' = delStore \ {delI}
          /\ delTrace' = Append(delTrace, [ index |-> delI, ok |-> TRUE ])
       \/ /\ delTrace' = Append(delTrace, [ index |-> delI, ok |-> FALSE ])
          /\ UNCHANGED delStore
    /\ delI' = delI + 1
    /\ UNCHANGED <<delBlocks, delHeading, delPc, delOut, notDel>>

\* deleteSection: return true after the loop
DelReturn ==
    /\ delPc = "loop"
    /\ deleteLoopEnds(delI, delEndIndex)
    /\ delOut' = Deleted(TRUE)
    /\ delPc' = "done"
    /\ UNCHANGED <<delBlocks, delHeading, delStore, delI, delTrace, notDel>>

DelIdle ==
    /\ delBlocks = <<>> /\ delHeading = "" /\ delStore = {}
    /\ delPc = "off" /\ delI = 0 /\ delTrace = <<>> /\ delOut = NotDeleted

----------------------------------------------------------------------------
(* Specifications, one per component.                                      *)

InitKey == KeyInit /\ DecIdle /\ ScanIdle /\ InfIdle /\ MainIdle /\ RouteIdle
    /\ ApiIdle /\ QuickIdle /\ EngIdle /\ CatIdle
    /\ ParseIdle
    /\ AppIdle
    /\ TreeIdle
    /\ ExIdle
    /\ DelIdle
NextKey ==
    \/ KeyFlipCase
    \/ KeyPadOuter
    \/ KeyStripOuter
    \/ KeyPadInner
    \/ KeyCompute
SpecKey == InitKey /\ [][NextKey]_vars

InitDecide == DecInit /\ KeyIdle /\ ScanIdle /\ InfIdle /\ MainIdle /\ RouteIdle
    /\ ApiIdle /\ QuickIdle /\ EngIdle /\ CatIdle
    /\ ParseIdle
    /\ AppIdle
    /\ TreeIdle
    /\ ExIdle
    /\ DelIdle
NextDecide == DecDecide
SpecDecide == InitDecide /\ [][NextDecide]_vars

InitScan == ScanInit /\ KeyIdle /\ DecIdle /\ InfIdle /\ MainIdle /\ RouteIdle
    /\ ApiIdle /\ QuickIdle /\ EngIdle /\ CatIdle
    /\ ParseIdle
    /\ AppIdle
    /\ TreeIdle
    /\ ExIdle
    /\ DelIdle
NextScan ==
    \/ ScanProjectInfo
    \/ ScanQuickSection
SpecScan == InitScan /\ [][NextScan]_vars

InitInfer == InfInit /\ KeyIdle /\ DecIdle /\ ScanIdle /\ MainIdle /\ RouteIdle
    /\ ApiIdle /\ QuickIdle /\ EngIdle /\ CatIdle
    /\ ParseIdle
    /\ AppIdle
    /\ TreeIdle
    /\ ExIdle
    /\ DelIdle
NextInfer == InfInfer
SpecInfer == InitInfer /\ [][NextInfer]_vars

Init == MainInit /\ KeyIdle /\ DecIdle /\ ScanIdle /\ InfIdle /\ RouteIdle
    /\ ApiIdle /\ QuickIdle /\ EngIdle /\ CatIdle
    /\ ParseIdle
    /\ AppIdle
    /\ TreeIdle
    /\ ExIdle
    /\ DelIdle
Next ==
    \/ PollStart
    \/ PollNext
    \/ PassFetch
    \/ PassCheck
    \/ PassCreate
    \/ PassProjectInfo
    \/ PassMarkEmpty
    \/ PassFinish
    \/ UserEdit
    \/ UserSetProject
Spec == Init /\ [][Next]_vars

\* The poll cycle of a process that may be stopped and started again
NextResume ==
    \/ PollStart
    \/ PollNext
    \/ PassFetch
    \/ PassCheck
    \/ PassCreate
    \/ PassProjectInfo
    \/ PassMarkEmpty
    \/ PassFinish
    \/ UserEdit
    \/ ProcessStop
SpecResume == Init /\ [][NextResume]_vars

InitInfoPass == InfoPassInit /\ KeyIdle /\ DecIdle /\ ScanIdle /\ InfIdle /\ RouteIdle
    /\ ApiIdle /\ QuickIdle /\ EngIdle /\ CatIdle /\ ParseIdle /\ AppIdle
    /\ TreeIdle
    /\ ExIdle
    /\ DelIdle
NextInfoPass ==
    \/ PollStart
    \/ PollNext
    \/ PassFetch
    \/ PassCheck
    \/ PassCreate
    \/ PassProjectInfo
    \/ PassMarkEmpty
    \/ PassFinish
SpecInfoPass == InitInfoPass /\ [][NextInfoPass]_vars

InitRoute == RouteInit /\ KeyIdle /\ DecIdle /\ ScanIdle /\ InfIdle /\ MainIdle
    /\ ApiIdle /\ QuickIdle /\ EngIdle /\ CatIdle
    /\ ParseIdle
    /\ AppIdle
    /\ TreeIdle
    /\ ExIdle
    /\ DelIdle
NextRoute ==
    \/ RouteStart
    \/ RouteNextItem
    \/ RouteAttempt
    \/ RouteFinish
    \/ RouteAgain
SpecRoute == InitRoute /\ [][NextRoute]_vars

InitApi ==
    ApiInit /\ KeyIdle /\ DecIdle /\ ScanIdle /\ InfIdle /\ MainIdle /\ RouteIdle
    /\ QuickIdle /\ EngIdle /\ CatIdle
    /\ ParseIdle
    /\ AppIdle
    /\ TreeIdle
    /\ ExIdle
    /\ DelIdle
NextApi ==
    \/ ApiPace
    \/ ApiInvoke
    \/ ApiCatch
SpecApi == InitApi /\ [][NextApi]_vars

InitQuick ==
    QuickInit /\ KeyIdle /\ DecIdle /\ ScanIdle /\ InfIdle /\ MainIdle /\ RouteIdle
    /\ ApiIdle /\ EngIdle /\ CatIdle
    /\ ParseIdle
    /\ AppIdle
    /\ TreeIdle
    /\ ExIdle
    /\ DelIdle
NextQuick ==
    \/ QuickSelect
    \/ QuickFetch
    \/ QuickTaskChannel
    \/ QuickConfig
    \/ QuickCreate
    \/ QuickInfoChannel
    \/ QuickCleanup
    \/ QuickAgain
SpecQuick == InitQuick /\ [][NextQuick]_vars

InitEngine ==
    EngInit /\ KeyIdle /\ DecIdle /\ ScanIdle /\ InfIdle /\ MainIdle /\ RouteIdle
    /\ ApiIdle /\ QuickIdle /\ CatIdle
    /\ ParseIdle
    /\ AppIdle
    /\ TreeIdle
    /\ ExIdle
    /\ DelIdle
NextEngine ==
    \/ EngConfig
    \/ EngQuery
    \/ EngFetch
    \/ EngCheck
    \/ EngCreate
    \/ EngInfo
    \/ EngMark
    \/ EngQuickQuery
    \/ EngQuick
    \/ EngArm
    \/ EngTick
    \/ EngNewMeeting
SpecEngine == InitEngine /\ [][NextEngine]_vars

InitCat ==
    CatInit /\ KeyIdle /\ DecIdle /\ ScanIdle /\ InfIdle /\ MainIdle /\ RouteIdle
    /\ ApiIdle /\ QuickIdle /\ EngIdle
    /\ ParseIdle
    /\ AppIdle
    /\ TreeIdle
    /\ ExIdle
    /\ DelIdle
NextCat ==
    \/ CatStart
    \/ CatRequest
    \/ CatReturn
    \/ CatCatch
SpecCat == InitCat /\ [][NextCat]_vars

InitParse ==
    ParseInit /\ KeyIdle /\ DecIdle /\ ScanIdle /\ InfIdle /\ MainIdle /\ RouteIdle
    /\ ApiIdle /\ QuickIdle /\ EngIdle /\ CatIdle
    /\ AppIdle
    /\ TreeIdle
    /\ ExIdle
    /\ DelIdle
NextParse ==
    \/ ParseStart
    \/ ParseRequest
    \/ ParseReturn
    \/ ParseCatch
SpecParse == InitParse /\ [][NextParse]_vars

InitAppend ==
    AppInit /\ KeyIdle /\ DecIdle /\ ScanIdle /\ InfIdle /\ MainIdle /\ RouteIdle
    /\ ApiIdle /\ QuickIdle /\ EngIdle /\ CatIdle /\ ParseIdle
    /\ TreeIdle
    /\ ExIdle
    /\ DelIdle
NextAppend ==
    \/ AppCatch
    \/ AppRetry
    \/ AppNotFound
    \/ AppAppend
SpecAppend == InitAppend /\ [][NextAppend]_vars

InitTree ==
    TreeInit /\ KeyIdle /\ DecIdle /\ ScanIdle /\ InfIdle /\ MainIdle /\ RouteIdle
    /\ ApiIdle /\ QuickIdle /\ EngIdle /\ CatIdle /\ ParseIdle /\ AppIdle
    /\ ExIdle
    /\ DelIdle
NextTree == TreeWalk
SpecTree == InitTree /\ [][NextTree]_vars

InitExtract ==
    ExInit /\ KeyIdle /\ DecIdle /\ ScanIdle /\ InfIdle /\ MainIdle /\ RouteIdle
    /\ ApiIdle /\ QuickIdle /\ EngIdle /\ CatIdle /\ ParseIdle /\ AppIdle
    /\ TreeIdle
    /\ DelIdle
NextExtract == ExExtract
SpecExtract == InitExtract /\ [][NextExtract]_vars

InitDelete ==
    DelInit /\ KeyIdle /\ DecIdle /\ ScanIdle /\ InfIdle /\ MainIdle /\ RouteIdle
    /\ ApiIdle /\ QuickIdle /\ EngIdle /\ CatIdle /\ ParseIdle /\ AppIdle
    /\ TreeIdle /\ ExIdle
NextDelete ==
    \/ DelFetch
    \/ DelDelete
    \/ DelReturn
SpecDelete == InitDelete /\ [][NextDelete]_vars

----------------------------------------------------------------------------
(* Claims.                                                                 *)

\* C2 as stated: the key of a text equals the key of any variant of it that
\* differs in letter case and/or in whitespace, wherever the whitespace is.
C2_AnyWhitespace ==
    keyOut # <<>> => keyOut[1] = keyOut[2]

\* C2, amended: the key of a text equals the key of every variant of it that
\* differs in letter case and/or in leading and trailing whitespace.
C2_Canonical ==
    (keyOut # <<>> /\ ~keyInterior) => keyOut[1] = keyOut[2]

\* C2 witness: a variant in another case and with other surrounding
\* whitespace has been given the key of the text.
C2_Witness ==
    /\ keyOut # <<>> /\ ~keyInterior
    /\ Len(keyVariant) > Len(keyText)
    /\ toLowerCase(keyVariant) # keyVariant
    /\ toLowerCase(keyText) = keyText
    /\ Len(trim(keyText)) > 0
    /\ keyOut[1] = keyOut[2]

\* C3: shouldProcessMeeting is true iff Processed is false (or absent), or
\* Processed is true, Last Processed is set and last_edited_time is strictly
\* later; so it is false at last_edited_time = Last Processed and false when
\* Processed is true with Last Processed unset.
C3_Decider ==
    decOut # None =>
        LET p == decPage
            isProcessed == p.Processed = Some(TRUE)
        IN  /\ decOut[1] = ( \/ ~isProcessed
                             \/ /\ isProcessed
                                /\ p.LastProcessed # None
                                /\ p.LastProcessed[1] < p.last_edited_time )
            /\ (isProcessed /\ p.LastProcessed = Some(p.last_edited_time)
                   => decOut[1] = FALSE)
            /\ (isProcessed /\ p.LastProcessed = None => decOut[1] = FALSE)
            /\ (isProcessed /\ p.LastProcessed = Some(p.last_edited_time - 1)
                   => decOut[1] = TRUE)

\* C3 witness: the decision on a processed page edited exactly at its
\* Last Processed time has been taken, and is "do not process".
C3_Witness ==
    /\ decOut = Some(FALSE)
    /\ decPage.Processed = Some(TRUE)
    /\ decPage.LastProcessed = Some(decPage.last_edited_time)

\* The scan's heading test, of the scan that was applied
ScanMatches(k) ==
    /\ isHeading(scanBlocks[k])
    /\ IF scanFn = "findProjectInfoSection"
       THEN matchesProjectInfo(scanBlocks[k])
       ELSE matchesSection(scanBlocks[k], scanFn)

\* The first matching heading (a position 1..Len), 0 when there is none
ScanFirstMatch ==
    IF \E k \in 1..Len(scanBlocks) : ScanMatches(k)
    THEN CHOOSE k \in 1..Len(scanBlocks) :
            ScanMatches(k) /\ \A j \in 1..(k - 1) : ~ScanMatches(j)
    ELSE 0

\* The first heading after position k, Len + 1 when there is none
ScanNextHeading(k) ==
    IF \E j \in (k + 1)..Len(scanBlocks) : isHeading(scanBlocks[j])
    THEN CHOOSE j \in (k + 1)..Len(scanBlocks) :
            isHeading(scanBlocks[j])
            /\ \A m \in (k + 1)..(j - 1) : ~isHeading(scanBlocks[m])
    ELSE Len(scanBlocks) + 1

\* C5 as stated: with the matching heading at index i and the next heading
\* of any kind at index j > i, findProjectInfoSection returns start = i and
\* end = j, and end = the length of the sequence when no heading follows i.
C5_SectionBounds ==
    (scanOut # None /\ scanFn = "findProjectInfoSection" /\ ScanFirstMatch # 0) =>
        /\ scanOut[1].found
        /\ scanOut[1].startIndex = ScanFirstMatch - 1
        /\ scanOut[1].endIndex = ScanNextHeading(ScanFirstMatch) - 1

\* C6 as stated: in each of the three scans, start is the index of the first
\* heading that matches, whatever matching headings come later.
C6_FirstMatchOnly ==
    (scanOut # None /\ ScanFirstMatch # 0) =>
        scanOut[1].startIndex = ScanFirstMatch - 1

\* The tokens of all #proj:<token> tags of a text
TagTokens(text) == { wordRun(text, i + 6) : i \in tagPositions(text) }

\* A token matches a project: it is part of the project's name or of one of
\* its keywords, case-insensitively
TokenMatchesProject(token, project) ==
    \E e \in 1..Len(PROJECT_KEYWORDS) :
        /\ PROJECT_KEYWORDS[e].project = project
        /\ tagMatchesEntry(PROJECT_KEYWORDS[e], toLowerCase(token))

KnownProjects == { PROJECT_KEYWORDS[e].project : e \in 1..Len(PROJECT_KEYWORDS) }

\* The projects named by a tag of some paragraph node
OverrideProjects ==
    { p \in KnownProjects :
        \E k \in 1..Len(infBlocks) :
            /\ infBlocks[k].type = "paragraph"
            /\ \E token \in TagTokens(infBlocks[k].text) : TokenMatchesProject(token, p) }

\* C7 as stated: when some paragraph node carries a #proj:<token> tag whose
\* token matches a known project, inferProject returns confidence 1.0 and a
\* project such a tag names, whatever the title contains.
C7_OverrideWins ==
    (infOut # None /\ OverrideProjects # {}) =>
        /\ infOut[1].confidence = 10
        /\ infOut[1].project \in OverrideProjects

\* The fixed order of C8
C8_Order ==
    << "ClickUp", "Docebo", "HubSpot", "AI Sales", "Insider Knowledge",
       "PD OTN", "Podcast", "Quarterly Economic Review" >>

C8_TitleHas(project) ==
    \E e \in 1..Len(PROJECT_KEYWORDS) :
        /\ PROJECT_KEYWORDS[e].project = project
        /\ \E k \in 1..Len(PROJECT_KEYWORDS[e].keywords) :
              includes(toLowerCase(infTitle), PROJECT_KEYWORDS[e].keywords[k])

\* C8: with no matching override tag, inferProject returns with confidence
\* 0.8 the first project of the fixed order that has a keyword in the
\* case-folded title, and Support/Other with confidence 0.0 when none has;
\* the confidence is one of 0.0, 0.8, 1.0 and needsReview is true exactly
\* for the 0.0 fallback.
C8_TitleInference ==
    infOut # None =>
        /\ infOut[1].confidence \in {0, 8, 10}
        /\ infOut[1].needsReview <=> (infOut[1].confidence = 0)
        /\ infOut[1].confidence = 0 => infOut[1].project = "Support/Other"
        /\ OverrideProjects = {} =>
              IF \E n \in 1..Len(C8_Order) : C8_TitleHas(C8_Order[n])
              THEN /\ infOut[1].confidence = 8
                   /\ \E n \in 1..Len(C8_Order) :
                         /\ infOut[1].project = C8_Order[n]
                         /\ C8_TitleHas(C8_Order[n])
                         /\ \A m \in 1..(n - 1) : ~C8_TitleHas(C8_Order[m])
              ELSE /\ infOut[1].confidence = 0
                   /\ infOut[1].project = "Support/Other"

\* C8 witness: a title with keywords of two projects (lms of Docebo, crm of
\* HubSpot) and no override tag has been given the earlier one, Docebo.
C8_Witness ==
    /\ infOut # None
    /\ OverrideProjects = {}
    /\ C8_TitleHas("Docebo") /\ C8_TitleHas("HubSpot")
    /\ infOut[1] = [project |-> "Docebo", confidence |-> 8, needsReview |-> FALSE]

\* C1: after any sequence of passes, with nothing else writing to the task
\* collection, no two task records have the same Line Key; two to-dos of
\* one meeting whose texts differ only in letter case or surrounding
\* whitespace have one record; a pass that met no failed create leaves a
\* record for every to-do of its document, and a pass that finds a record
\* for every to-do of its document creates none.
LoopDone == pc \in {"info", "finish"}
TodoKeys == { generateLineKey(pass.meeting[1].id, pass.todos[k].text) :
                k \in 1..Len(pass.todos) }
TaskKeys == { task.LineKey : task \in BagToSet(tasks) }
C1_UniqueKeys ==
    /\ \A task \in BagToSet(tasks) : CopiesIn(task, tasks) = 1
    /\ \A t1, t2 \in BagToSet(tasks) : t1.LineKey = t2.LineKey => t1 = t2
    /\ \A t1, t2 \in BagToSet(tasks) :
          /\ t1.FromMeeting = t2.FromMeeting
          /\ toLowerCase(trim(t1.Title)) = toLowerCase(trim(t2.Title))
          => t1 = t2
    /\ LoopDone /\ pass.failed = 0 => TodoKeys \subseteq TaskKeys
    /\ LoopDone /\ pass.present = 1..Len(pass.todos) => pass.created = 0

\* A pass over a document with two to-dos that differ in case and
\* whitespace only, which an earlier pass has gone through, has created
\* nothing; the collection holds the one record of the two to-dos.
C1_Witness ==
    /\ pc = "finish"
    /\ Len(pass.todos) = 2
    /\ pass.todos[1].text # pass.todos[2].text
    /\ Cardinality(TodoKeys) = 1
    /\ pass.present = {1, 2}
    /\ pass.created = 0
    /\ pass.skipped = 2
    /\ Cardinality({ task \in BagToSet(tasks) :
                       task.FromMeeting = pass.meeting[1].id }) = 1

\* C4 as stated: a pass begins only on a document that has had no completed
\* pass or was edited after its last one, and an edit made after a
\* completed pass which no pass has read leaves the document due for a
\* pass.
C4_NoSpuriousPass ==
    pc = "fetch" => shouldProcessMeeting(meetings[pass.meeting[1].id])
C4_EditTriggersPass ==
    \A id \in DOMAIN meetings : unread[id] => shouldProcessMeeting(meetings[id])
C4_Reprocessing == C4_NoSpuriousPass /\ C4_EditTriggersPass

\* C9 as stated: a write of processMeeting to a meeting page has a Project
\* iff it has a Needs Review; it has them only when the page has no project
\* set by a user, with Needs Review = (confidence < 0.6); and it changes
\* neither on a page whose project a user has set.
C9_ProjectReview ==
    lastWrite # NoWrite =>
        LET w == lastWrite[1]
            hasProject == "Project" \in DOMAIN w.props
            hasReview == "NeedsReview" \in DOMAIN w.props
        IN  /\ hasProject <=> hasReview
            /\ hasProject =>
                  /\ ~w.userSet
                  /\ w.confidence # None
                  /\ w.props.NeedsReview = Some(needsReview(w.confidence[1]))
            /\ w.userSet => w.after = w.before

\* C10: when the credentials, contacts and links of the bundle are empty,
\* every append is made after a heading of the decisions log, none after
\* the credentials, contacts or links heading, and no list item follows
\* one of these three headings on the page.
OtherHeadings == {CredentialsHeading, ContactsHeading, LinksHeading}
DecisionsOnly ==
    /\ routePc # "off"
    /\ routeBundle.credentials = <<>>
    /\ routeBundle.contacts = <<>>
    /\ routeBundle.links = <<>>
C10_DecisionsOnly ==
    DecisionsOnly =>
        /\ \A k \in 1..Len(routeLog) :
              /\ trim(routeLog[k].heading) \notin OtherHeadings
              /\ includes(trim(routeLog[k].heading), afterFirstWord(DecisionsHeading))
              /\ routeLog[k].section = DecisionsHeading
        /\ \A i \in 1..Len(routePage) :
              /\ isHeading(routePage[i])
              /\ trim(routePage[i].text) \in OtherHeadings
              /\ i < Len(routePage)
              => routePage[i + 1].type # "bulleted_list_item"

\* A bundle of decisions and other items has been routed to a page that has
\* the credentials heading: two appends were made.
C10_Witness ==
    /\ DecisionsOnly
    /\ routePc = "done"
    /\ routeBundle.decisions # <<>>
    /\ routeBundle.other # <<>>
    /\ Len(routeLog) = 2
    /\ \E i \in 1..Len(routePage) : routePage[i].text = CredentialsHeading

\* C11: a call of appendToSection for the credentials, contacts or links
\* section on a page without that heading and with the decisions-log
\* heading, which caught no error, has inserted its items right after the
\* decisions-log heading and returned true; on a page without the
\* decisions-log heading too it has returned false and left the page as
\* it was; a call that caught no error has ended on the decisions-log
\* section, the one fallback.
PrimaryAbsent(call) ==
    /\ call.primary \in OtherHeadings
    /\ findSection(call.before, call.primary) = -1
FallbackAt(call) == findSection(call.before, DecisionsHeading)
C11_Fallback ==
    \A k \in 1..Len(routeDone) :
        LET call == routeDone[k]
        IN  PrimaryAbsent(call) =>
              /\ call.caught = 0 => call.section = DecisionsHeading
              /\ FallbackAt(call) # -1 /\ call.caught = 0 =>
                    /\ call.result = TRUE
                    /\ call.after = insertAfter(call.before, FallbackAt(call),
                                                bulletBlocks(call.content))
                    /\ matchesHeading(At(call.before, FallbackAt(call)),
                                      DecisionsHeading)
              /\ FallbackAt(call) = -1 =>
                    /\ call.result = FALSE
                    /\ call.after = call.before

\* An item for a section the page does not have is under the decisions
\* log, and updateProjectPage has returned.
C11_Witness ==
    /\ \E k \in 1..Len(routeDone) :
          /\ PrimaryAbsent(routeDone[k])
          /\ FallbackAt(routeDone[k]) # -1
          /\ routeDone[k].result = TRUE
          /\ routeDone[k].after # routeDone[k].before
    /\ routePc = "done"

\* C12: updateProjectPage returns true iff one of its appendToSection calls
\* returned true; when the Projects database has no page with the name it
\* returns false, having begun no appendToSection call (so no listing of
\* child nodes) and inserted nothing; it always returns a value.
SomeAppendSucceeded == \E k \in 1..Len(routeDone) : routeDone[k].result
C12_Result ==
    /\ routePc = "done" =>
          /\ routeOut \in {Some(TRUE), Some(FALSE)}
          /\ routeOut[1] <=> SomeAppendSucceeded
    /\ routePc = "done" /\ ~routeFound =>
          /\ routeOut = Some(FALSE)
          /\ routeTotal = 0
          /\ routeDone = <<>>
          /\ routeLog = <<>>
          /\ routePage \in RoutePages
    /\ routePc \in {"start", "items", "attempt", "done"}

\* updateProjectPage has returned true after one call that failed and one
\* that succeeded.
C12_Witness ==
    /\ routePc = "done"
    /\ routeOut = Some(TRUE)
    /\ \E k \in 1..Len(routeDone) : ~routeDone[k].result
    /\ \E k \in 1..Len(routeDone) : routeDone[k].result

\* C13 as stated: when the same bundle has been routed to the same project
\* page a second time, no remote call having failed, the page has the
\* content the first routing left.
C13_Idempotent ==
    routeRun = 2 /\ routePc = "done" /\ routeFailures = 0
        => routePage = routeFirst[1]

\* C14 as stated: after one bundle has been routed, two items of one
\* category that are on the page are there in the order they have in the
\* bundle.
Categories == {"credentials", "contacts", "links", "decisions", "other"}
PositionsOf(item) ==
    { n \in 1..Len(routePage) :
        /\ routePage[n].type = "bulleted_list_item"
        /\ routePage[n].text = cleanLine(item) }
C14_OrderPreserved ==
    routeRun = 1 /\ routePc = "done" =>
        \A category \in Categories :
            \A i, j \in 1..Len(routeBundle[category]) :
                i < j =>
                    \A m \in PositionsOf(routeBundle[category][i]),
                       n \in PositionsOf(routeBundle[category][j]) : m < n

\* C15: a successful append has put one list item per non-blank line of its
\* content right after the heading it located, in the order of the lines,
\* and left the other nodes as they were; of two successful appends to one
\* section, every item of the later one is above every item of the earlier.
NonBlankLines(content) ==
    { n \in 1..Len(splitLines(content)) : trim(splitLines(content)[n]) # "" }
InsertedRightAfter(call) ==
    LET index == findSection(call.before, call.section)
        children == bulletBlocks(call.content)
        count == Len(children)
    IN  /\ index # -1
        /\ count = Cardinality(NonBlankLines(call.content))
        /\ Len(call.after) = Len(call.before) + count
        /\ \A n \in 1..(index + 1) : call.after[n] = call.before[n]
        /\ \A n \in 1..count :
              /\ call.after[index + 1 + n] = children[n]
              /\ children[n].type = "bulleted_list_item"
        /\ \A n \in (index + 2)..Len(call.before) :
              call.after[n + count] = call.before[n]
        /\ \A m, n \in 1..count :
              m < n => \E a, b \in 1..Len(splitLines(call.content)) :
                          /\ a < b
                          /\ children[m].text = cleanLine(splitLines(call.content)[a])
                          /\ children[n].text = cleanLine(splitLines(call.content)[b])
PositionsOfAll(children) ==
    { n \in 1..Len(routePage) :
        \E m \in 1..Len(children) : routePage[n] = children[m] }
C15_Stacking ==
    routeRun = 1 =>
        /\ \A k \in 1..Len(routeDone) :
              routeDone[k].result => InsertedRightAfter(routeDone[k])
        /\ \A k, l \in 1..Len(routeDone) :
              /\ k < l
              /\ routeDone[k].result
              /\ routeDone[l].result
              /\ routeDone[k].section = routeDone[l].section
              => \A m \in PositionsOfAll(bulletBlocks(routeDone[l].content)),
                    n \in PositionsOfAll(bulletBlocks(routeDone[k].content)) : m < n

\* Two appends to the decisions log have succeeded, the first with two
\* lines, the second with one.
C15_Witness ==
    /\ routeRun = 1
    /\ Len(routeDone) = 2
    /\ routeDone[1].result /\ routeDone[2].result
    /\ routeDone[1].section = routeDone[2].section
    /\ Len(bulletBlocks(routeDone[1].content)) = 2
    /\ Len(bulletBlocks(routeDone[2].content)) = 1

\* C16: apiCall invokes the operation at most 5 times; an invocation after
\* the first follows an invocation that failed with code rate_limited or
\* status 429; after a 5th such failure apiCall throws that last error;
\* after a failure of any other kind, or a success, there is no further
\* invocation and apiCall throws that error, or returns.
CallEvents == { i \in 1..Len(apiTrace) : apiTrace[i].kind = "call" }
RateLimitSignal(error) == error.code = "rate_limited" \/ error.status = 429
FailedWithRateLimit(i) ==
    apiTrace[i].error # None /\ RateLimitSignal(apiTrace[i].error[1])
LastCall == CHOOSE i \in CallEvents : \A j \in CallEvents : j <= i
C16_Retry ==
    /\ Cardinality(CallEvents) <= 5
    /\ \A i \in CallEvents :
          /\ apiTrace[i].attempt = Cardinality({ j \in CallEvents : j < i })
          /\ apiTrace[i].attempt > 0 =>
                \E j \in CallEvents :
                    /\ j < i
                    /\ apiTrace[j].attempt = apiTrace[i].attempt - 1
                    /\ FailedWithRateLimit(j)
          /\ ~FailedWithRateLimit(i) => i = LastCall
    /\ apiPc = "done" =>
          /\ CallEvents # {}
          /\ apiResult = Some([ thrown |-> apiTrace[LastCall].error # None,
                                error |-> IF apiTrace[LastCall].error = None
                                          THEN None
                                          ELSE apiTrace[LastCall].error[1] ])
          /\ FailedWithRateLimit(LastCall) => Cardinality(CallEvents) = 5
    /\ Cardinality(CallEvents) = 5 /\ FailedWithRateLimit(LastCall)
          /\ apiPc # "catch" => apiPc \in {"pace", "done"}

\* The operation was invoked five times, each time rate limited, and
\* apiCall has thrown.
C16_Witness ==
    /\ apiPc = "done"
    /\ Cardinality(CallEvents) = 5
    /\ apiResult # None /\ apiResult[1].thrown
    /\ RateLimitSignal(apiResult[1].error)

\* C17: every invocation of the operation comes right after a delay of
\* 350 ms, and an invocation after the first has, before that delay, the
\* backoff delay that followed the failed invocation before it.
IsDelay(i) == i \in 1..Len(apiTrace) /\ apiTrace[i].kind = "delay"
C17_Pacing ==
    \A i \in CallEvents :
        /\ IsDelay(i - 1)
        /\ apiTrace[i - 1].ms = 350
        /\ apiTrace[i].attempt > 0 =>
              /\ IsDelay(i - 2)
              /\ apiTrace[i - 2].ms >= 1000
              /\ (i - 3) \in CallEvents

\* A third invocation has been made, after two rate-limited ones.
C17_Witness ==
    /\ Cardinality(CallEvents) = 3
    /\ apiPc \in {"catch", "done"}

\* C18: every remote call issued to the document store goes through
\* apiCall; of the calls of appendToSection, the child listing and the
\* block append both do.
C18_ThroughApiCall ==
    \A k \in 1..Len(routeLog) :
        /\ routeLog[k].listed = "apiCall"
        /\ routeLog[k].through = "apiCall"

\* C19: isQuickTodo is true of a record exactly when its trimmed title is
\* empty, shorter than 5 characters or contains "untitled" in any letter
\* case, and its project or its priority is unset, and its status is unset
\* or Backlog; a record with a longer title without "untitled", or with
\* project and priority both set, or with status Next, Doing or Done, is
\* not processed as a quick entry.
TitleText == trim(plainText(quickSeen[1].Title))
PlaceholderTitle ==
    \/ TitleText = ""
    \/ Len(TitleText) < 5
    \/ \E i \in 1..Len(TitleText) :
          /\ i + 7 <= Len(TitleText)
          /\ toLowerCase(SubSeq(TitleText, i, i + 7)) = "untitled"
C19_QuickEntry ==
    quickSelected # None =>
        LET record == quickSeen[1]
            processed == quickPc \notin {"filter", "end"}
        IN  /\ quickSelected[1].quick <=>
                  /\ PlaceholderTitle
                  /\ record.Project = None \/ record.Priority = None
                  /\ record.Status = None \/ record.Status = Some("Backlog")
            /\ processed => quickSelected[1].quick
            /\ ~PlaceholderTitle => ~quickSelected[1].quick /\ ~processed
            /\ record.Project # None /\ record.Priority # None
                  => ~quickSelected[1].quick /\ ~processed
            /\ record.Status \in {Some("Next"), Some("Doing"), Some("Done")}
                  => ~quickSelected[1].quick /\ ~processed

\* A record with a placeholder title in mixed case, no project and status
\* Backlog was selected, and one with status Done was not
C19_Witness ==
    /\ quickSelected # None
    /\ quickSelected[1].quick
    /\ quickSeen[1].Title = <<"my UNTITLED x">>
    /\ quickSeen[1].Status = Some("Backlog")
    /\ quickSeen[1].Priority # None

\* C20: the task channel changes only properties of the record that had no
\* value: a title, project, priority, due date or status the record had is
\* the same after the update.
HasValue(record, f) ==
    IF f = "Title" THEN trim(plainText(record.Title)) # "" ELSE record[f] # None
C20_OnlyUnset ==
    quickUpdates # None =>
        \A f \in DOMAIN quickPage :
            HasValue(quickSeen[1], f) => quickPage[f] = quickSeen[1][f]

\* C21: when n >= 1 tasks were parsed for a quick entry, then once its task
\* channel is over exactly n - 1 creations have been attempted, for the
\* tasks after the first and in their order, each with status Backlog,
\* whether or not a creation failed, and when they were all attempted
\* taskSuccess is set.
IsCreate(event) == event.op = "create"
Creations == SelectSeq(quickLog, IsCreate)
TaskChannelOver == quickPc \in {"info", "cleanup", "end"}
C21_Siblings ==
    TaskChannelOver /\ quickRun.tasks # <<>> =>
        /\ Len(Creations) = Len(quickRun.tasks) - 1
        /\ \A k \in 1..Len(Creations) :
              /\ Creations[k].item = k
              /\ Creations[k].properties.Title = <<quickRun.tasks[k + 1].title>>
              /\ Creations[k].properties.Status = Some("Backlog")
        /\ Len(quickRun.tasks) > 1 /\ Len(Creations) = Len(quickRun.tasks) - 1
              => quickRun.taskSuccess

\* C22: when processQuickTodo has returned, it has asked for the record to
\* be archived exactly when the record has no task text, has info text and
\* the routing of the info text succeeded; a record with task text is never
\* archived and its archiving is never asked for.
IsArchive(event) == event.op = "archive"
IsRoutedOk(event) == event.op = "route" /\ event.ok
Archives == SelectSeq(quickLog, IsArchive)
RoutingSucceeded == SelectSeq(quickLog, IsRoutedOk) # <<>>
Returned == quickPc = "end" /\ quickResult # None
C22_Archive ==
    /\ Returned =>
          /\ Len(Archives) <= 1
          /\ Archives # <<>> <=>
                /\ quickSections.task = ""
                /\ quickRun.projectInfoContent # ""
                /\ RoutingSucceeded
          /\ quickResult[1].pageDeleted <=> Archives # <<>> /\ Archives[1].ok
    /\ quickArchived => quickSections.task = ""
    /\ quickSections.task # "" => Archives = <<>>

\* A record with info text only was routed and archived
C22_Witness ==
    /\ Returned
    /\ quickArchived
    /\ quickResult[1].pageDeleted
    /\ quickSections.info = "key: v"

\* C23: when processQuickTodo has returned, it has called for the deletion
\* of the Project Info section exactly when the task channel succeeded and
\* the info text was absent or its routing succeeded too; the record is
\* then kept, and with both texts present and one channel failed nothing
\* is deleted.
IsDeleteSection(event) == event.op = "deleteSection"
SectionDeletions == SelectSeq(quickLog, IsDeleteSection)
C23_DeleteSection ==
    Returned =>
        /\ Len(SectionDeletions) <= 1
        /\ SectionDeletions # <<>> <=>
              /\ quickRun.taskSuccess
              /\ quickRun.projectInfoContent = "" \/ RoutingSucceeded
        /\ SectionDeletions # <<>> =>
              /\ ~quickArchived
              /\ Archives = <<>>
              /\ ~quickResult[1].pageDeleted
        /\ ( /\ quickRun.taskContent # ""
             /\ quickRun.projectInfoContent # ""
             /\ quickRun.taskSuccess # RoutingSucceeded )
              => SectionDeletions = <<>> /\ quickSections.info # ""

\* Both channels succeeded and the section was deleted
C23_Witness ==
    /\ Returned
    /\ quickRun.taskSuccess
    /\ quickRun.projectInfoContent = "key: v"
    /\ RoutingSucceeded
    /\ SectionDeletions # <<>>
    /\ quickSections.info = ""

\* C24: when processQuickTodo has returned with neither channel having
\* succeeded, it has written nothing to the record: its properties and its
\* sections are as the query returned them, it is not archived, and no
\* update, deletion or archive was made.
IsRecordWrite(event) ==
    event.op \in {"update", "deleteSection", "archive"} /\ event.ok
C24_Untouched ==
    Returned /\ ~quickRun.taskSuccess /\ ~quickRun.projectInfoSuccess =>
        /\ quickPage = quickSeen[1]
        /\ ~quickArchived
        /\ SelectSeq(quickLog, IsRecordWrite) = <<>>

\* C25: once a processQuickTodo of a record has returned a result other
\* than null, no later poll cycle selects the record as a quick entry.
C25_NeverAgain ==
    quickTerminal /\ quickSelected # None =>
        ~(quickSelected[1].returned /\ quickSelected[1].quick)

\* C26: in an invocation of pollMeetings whose query succeeded, every
\* meeting selected is handed to processMeeting and then processQuickTodos
\* runs, and every record it selects is handed to processQuickTodo, in
\* order, whatever error was caught in one of them.
MeetingPhaseOver(poll) == poll.pc \in {"quickQuery", "quick", "done"}
C26_Isolation ==
    \A c \in 1..Len(engPolls) :
        LET poll == engPolls[c]
        IN  /\ poll.queried /\ MeetingPhaseOver(poll) =>
                  SubSeq(poll.entered, 1, Len(poll.selected)) = poll.selected
            /\ poll.queried /\ poll.pc = "done" =>
                  /\ poll.quickRan
                  /\ poll.quickQueried =>
                        poll.entered = poll.selected \o poll.qselected

\* An error was caught in the first of two meetings; the second meeting
\* and both quick entries were processed
C26_Witness ==
    \E c \in 1..Len(engPolls) :
        /\ engPolls[c].pc = "done"
        /\ engPolls[c].caught = {"m1"}
        /\ engPolls[c].entered = <<"m1", "m2", "q1", "q2">>
        /\ "m2" \in engProcessed

\* C27: at most one invocation of pollMeetings is running at any time.
Running == { c \in 1..Len(engPolls) : engPolls[c].pc # "done" }
C27_NoOverlap == Cardinality(Running) <= 1

\* C28: no two invocations are between the existence check and the
\* creation for one line key at once, and no two tasks have one line key.
InFlight(c) ==
    IF engPolls[c].pc \in {"check", "create"}
    THEN {engLineKey(Head(engPolls[c].queue), engPolls[c].i)}
    ELSE {}
C28_NoTwoCreates ==
    /\ \A c, d \in 1..Len(engPolls) : c # d => InFlight(c) \cap InFlight(d) = {}
    /\ \A key \in BagToSet(engTasks) : CopiesIn(key, engTasks) = 1

\* C29: Processed and Last Processed of a document are written only by the
\* last remote write of a pass on it, after every to-do was created, found
\* existing or failed; up to that write the document satisfies
\* shouldProcessMeeting, so that it does after a stop of the process at any
\* earlier point of the pass, and it keeps doing so until a pass marks it;
\* no create, of a re-run after a stop or of any pass, makes a record
\* with the Line Key of a record that exists.
MidPass == pc \in {"fetch", "check", "create", "info", "finish", "markEmpty"}
Marks(id) ==
    \/ meetings'[id].Processed # meetings[id].Processed
    \/ meetings'[id].LastProcessed # meetings[id].LastProcessed
LastWriteOfPass(id) ==
    /\ pc \in {"finish", "markEmpty"}
    /\ pass.meeting = Some(pass.meeting[1]) /\ pass.meeting[1].id = id
    /\ pass.i = Len(pass.todos)
    /\ pass.created + pass.skipped = Len(pass.todos)
    /\ pc' = "next"
    /\ tasks' = tasks /\ routed' = routed
C29_Resumable ==
    [][ /\ \A id \in DOMAIN meetings :
              /\ Marks(id) => LastWriteOfPass(id)
              /\ shouldProcessMeeting(meetings[id])
                   /\ ~shouldProcessMeeting(meetings'[id]) => Marks(id)
        /\ MidPass => shouldProcessMeeting(meetings[pass.meeting[1].id])
        /\ MidPass /\ pc' = "idle" =>
              shouldProcessMeeting(meetings'[pass.meeting[1].id])
        /\ \A task \in BagToSet(tasks') :
              CopiesIn(task, tasks') > CopiesIn(task, tasks) =>
                 task.LineKey \notin TaskKeys ]_vars
\* A pass on a document never marked, after a stop: it has created nothing
\* and finds the record that the stopped pass created
C29_Witness ==
    /\ stopped /\ pc = "check"
    /\ pass.created = 0 /\ pass.skipped > 0
    /\ meetings[pass.meeting[1].id].Processed = Some(FALSE)
    /\ meetings[pass.meeting[1].id].LastProcessed = None
    /\ \E task \in BagToSet(tasks) :
          /\ task.FromMeeting = pass.meeting[1].id
          /\ task.LineKey = generateLineKey(pass.meeting[1].id, pass.todos[1].text)

\* C30: when the classification service raises an error other than a rate
\* limit or a timeout, or answers with malformed data (no choice, a content
\* that is no JSON text, a JSON value that is no object, an object with a
\* category that is no list), categorizeProjectInfo returns the bundle with
\* every input bullet, unchanged and in order, under "other" and the four
\* other categories empty.
IsList(value) == value.t = "array"
Malformed(reply) ==
    \/ reply.kind \in {"noChoices", "text"}
    \/ /\ reply.kind = "json"
       /\ \/ reply.value.t # "object"
          \/ \E k \in BundleKeys :
                reply.value.fields[k] # Absent /\ ~IsList(reply.value.fields[k])
FailedOther(reply) == reply.kind = "error" /\ ~catRetries(reply.error)
C30_Fallback ==
    catPc = "done" /\ catBullets # <<>>
       /\ (FailedOther(catReply) \/ Malformed(catReply))
    => catOut = Some(fallbackBundle(catBullets))

\* C31: parseQuickTodo returns, for a text that is not blank and also when
\* the classification service fails, a structure with a tasks list of at
\* least one item, each with title, project, priority, due and context, so
\* that parsed.tasks || [] of processQuickTodo has a first item.
C31_FirstItem ==
    parsePc = "done" =>
        /\ parseOut.tasks # None
        /\ Len(tasksOf(parseOut)) >= 1
        /\ \A n \in 1..Len(tasksOf(parseOut)) :
              DOMAIN tasksOf(parseOut)[n] = ItemKeys

\* C34: a call of categorizeProjectInfo or of parseQuickTodo makes at most
\* two requests to the classification service, also when the service keeps
\* answering with rate-limit or timeout errors.
C34_RetryOnce ==
    /\ catRequests <= 2
    /\ parseRequests <= 2

\* C32: appendToSection waits and tries again only after a timeout or a
\* rate-limit failure, at most twice, 3 s before the first retry and 6 s
\* before the second; after the third failed attempt, or after any other
\* error at any attempt, it returns false; the switch to the fallback
\* section leaves the retry count as it is.
Events(kind) == { n \in 1..Len(appTrace) : appTrace[n].kind = kind }
WaitsBefore(n) == Cardinality({ m \in Events("wait") : m < n })
C32_Retry ==
    /\ Cardinality(Events("wait")) <= 2
    /\ Cardinality(Events("failed")) <= 3
    /\ \A n \in Events("wait") :
          /\ n > 1
          /\ appTrace[n - 1].kind = "failed"
          /\ appTrace[n - 1].error \in {"timeout", "rate_limited"}
          /\ appTrace[n].ms = IF WaitsBefore(n) = 0 THEN 3000 ELSE 6000
    /\ \A n \in 1..Len(appTrace) : appTrace[n].retryCount = WaitsBefore(n)
    /\ appCall.retryCount = Cardinality(Events("wait"))
    /\ \A n \in Events("failed") :
          \/ appTrace[n].error = "other"
          \/ Cardinality({ m \in Events("failed") : m <= n }) = 3
          => n = Len(appTrace) /\ appPc = "done" /\ appOut = Some(FALSE)
    /\ appPc = "done" => appOut # None
\* The third attempt fails after a retry, the switch to the fallback
\* section and another retry
C32_Witness ==
    /\ appPc = "done" /\ appOut = Some(FALSE)
    /\ Cardinality(Events("failed")) = 3
    /\ \E f \in Events("fallback") :
          /\ \E w \in Events("wait") : w < f
          /\ \E w \in Events("wait") : w > f /\ appTrace[w].ms = 6000

\* C33: the delay apiCall waits after the failed attempt number a, a in
\* 0..4, is at least the base of that attempt and at most 1000 ms more,
\* the bases being 1000, 2000, 4000, 8000 and 10000 ms; no such delay
\* exceeds 11000 ms.
StatedBases == <<1000, 2000, 4000, 8000, 10000>>
IsBackoff(i) == IsDelay(i) /\ (i - 1) \in CallEvents
C33_Backoff ==
    \A i \in 1..Len(apiTrace) :
        IsBackoff(i) =>
            /\ apiTrace[i - 1].attempt \in 0..4
            /\ apiTrace[i].ms >= StatedBases[apiTrace[i - 1].attempt + 1]
            /\ apiTrace[i].ms - StatedBases[apiTrace[i - 1].attempt + 1] <= 1000
            /\ apiTrace[i].ms <= 11000
\* The delay after the fifth failed attempt, with the largest jitter
C33_Witness ==
    \E i \in 1..Len(apiTrace) :
        /\ IsBackoff(i)
        /\ apiTrace[i - 1].attempt = 4
        /\ apiTrace[i].ms > 10000

\* C35: when processQuickTodo has read a record whose info channel holds
\* text, the pass classifies its lines and hands the bundle to routing
\* before it ends, whatever became of the task channel.
C35_Independent ==
    quickPc = "end" /\ quickRun.projectInfoContent # ""
        => \E n \in 1..Len(quickLog) : quickLog[n].op = "route"

\* C36: a document that is marked as processed and has a Project Info
\* section with at least one extracted bullet had its bullets classified
\* and handed to routing before the Processed flag was written, also when
\* it holds no check-item.
C36_InfoRouted ==
    \A id \in DOMAIN meetings :
        /\ meetings[id].Processed = Some(TRUE)
        /\ projectInfoBullets(meetings[id].blocks) # <<>>
        => \E r \in routed : r.bullets = projectInfoBullets(meetings[id].blocks)

\* C37: getAllBlocksRecursive never requests the children of a child page
\* or a child database; such a block is in the result and none of its
\* descendants is; every other block with children is followed directly by
\* its descendants, the result being the depth-first pre-order of the tree.
ChildKinds == {"child_page", "child_database"}
RECURSIVE ProperAncestors(_)
ProperAncestors(n) ==
    IF tree.parent[n] = 0 THEN {}
    ELSE {tree.parent[n]} \cup ProperAncestors(tree.parent[n])
RECURSIVE PathOf(_)
PathOf(n) == IF tree.parent[n] = 0 THEN <<n>> ELSE Append(PathOf(tree.parent[n]), n)
DocBefore(u, v) ==
    \/ u \in ProperAncestors(v)
    \/ \E k \in 1..Len(PathOf(u)) :
          /\ k <= Len(PathOf(v))
          /\ \A h \in 1..(k - 1) : PathOf(u)[h] = PathOf(v)[h]
          /\ PathOf(u)[k] < PathOf(v)[k]
InBlocks(n) == \E i \in 1..Len(treeOut.blocks) : treeOut.blocks[i] = n
NoChildKindAsked ==
    \A i \in 1..Len(treeOut.requests) :
        treeOut.requests[i] = 0 \/ tree.type[treeOut.requests[i]] \notin ChildKinds
InPreOrder ==
    \A i, j \in 1..Len(treeOut.blocks) :
        i < j => DocBefore(treeOut.blocks[i], treeOut.blocks[j])
GlyphRemoved(text) ==
    IF text # "" /\ CharAt(text, 1) \in {"-", BulletGlyph}
    THEN trim(SubSeq(text, 2, Len(text)))
    ELSE text
StatedBullet(i) ==
    LET node == At(exBlocks, i)
        text == trim(node.text)
    IN  IF node.type \in {"bulleted_list_item", "numbered_list_item"} THEN text
        ELSE IF /\ node.type = "paragraph"
                /\ text # ""
                /\ (CharAt(text, 1) \in {"-", BulletGlyph} \/ Len(text) > 10)
        THEN GlyphRemoved(text)
        ELSE ""
Yielding ==
    { i \in (exRange.startIndex + 1)..(exRange.endIndex - 1) : StatedBullet(i) # "" }
RankOf(i) == Cardinality({ j \in Yielding : j <= i })
InExOut(text) == \E k \in 1..Len(exOut) : exOut[k] = text
C38_Bullets ==
    exPc = "done" =>
        /\ Len(exOut) = Cardinality(Yielding)
        /\ \A i \in Yielding : exOut[RankOf(i)] = StatedBullet(i)
        /\ ~InExOut("")
        /\ \A i \in 0..(Len(exBlocks) - 1) :
              \/ i <= exRange.startIndex
              \/ i >= exRange.endIndex
              \/ At(exBlocks, i).type = "to_do"
              \/ /\ At(exBlocks, i).type = "paragraph"
                 /\ Len(trim(At(exBlocks, i).text)) <= 10
                 /\ ~startsWith(trim(At(exBlocks, i).text), "-")
                 /\ ~startsWith(trim(At(exBlocks, i).text), BulletGlyph)
              => ~InExOut(trim(At(exBlocks, i).text))
\* A long paragraph and a paragraph with two dashes in a section that is
\* followed by another section with a bullet of its own
C38_Witness ==
    /\ exPc = "done"
    /\ exOut = <<"elevenchars", "-two">>
    /\ exRange.endIndex < Len(exBlocks)

\* C39: deleteSection makes exactly one delete request for each node of
\* the located section, from the heading at start to the node before end,
\* in index order, and none for any other node; a failed request is
\* skipped and the nodes after it are still deleted; when the heading is
\* not found nothing is deleted and the result is true.
DelSection == locateSection(delBlocks, delHeading)
DelFinished == delPc = "done" /\ delOut = Deleted(TRUE)
PassEnded ==
    /\ pc = "next" /\ pass.meeting # None /\ lastWrite # NoWrite
    /\ pass.present = {} /\ pass.failed = 0
CanonicalText(text) == toLowerCase(trim(text))
CheckItems(blocks) == { k \in 1..Len(blocks) : blocks[k].type = "to_do" }
TasksOf(id, canonical) ==
    { task \in BagToSet(tasks) :
        task.FromMeeting = id /\ CanonicalText(task.Title) = canonical }
C40_OnePerText ==
    PassEnded =>
        LET id == pass.meeting[1].id
            blocks == meetings[id].blocks
            filled == { k \in CheckItems(blocks) : trim(blocks[k].text) # "" }
            texts == { CanonicalText(blocks[k].text) : k \in filled }
        IN  /\ pass.created = Cardinality(texts)
            /\ pass.skipped = Cardinality(filled) - Cardinality(texts)
            /\ \A canonical \in texts :
                  /\ Cardinality(TasksOf(id, canonical)) = 1
                  /\ \A task \in TasksOf(id, canonical) : CopiesIn(task, tasks) = 1
            /\ TasksOf(id, "") = {}
            /\ \A task \in BagToSet(tasks) :
                  task.FromMeeting = id => CanonicalText(task.Title) \in texts
\* Four check-items, one of them blank and two with the same text but for
\* case and blanks: two tasks, one skipped
C40_Witness ==
    /\ PassEnded
    /\ pass.created = 2 /\ pass.skipped = 1
    /\ \E k \in CheckItems(meetings[pass.meeting[1].id].blocks) :
          trim(meetings[pass.meeting[1].id].blocks[k].text) = ""

====
